---------------------------- MODULE Spec2Model ----------------------------
(***************************************************************************)
(* A model of the WhatsApp chatbot flow engine (chatbot/flow_engine.py),   *)
(* its session lifecycle manager (chatbot/session_manager.py) and the      *)
(* session document (doctype/whatsapp_chatbot_session).                    *)
(*                                                                         *)
(* Text is a sequence of one-character strings, so that lower(), strip(),  *)
(* split(), replace() and the validation patterns are computed character   *)
(* by character as Python computes them.  Python's None is the value None; *)
(* a value is falsy when it is None or the empty text.                     *)
(***************************************************************************)
EXTENDS Integers, Sequences, FiniteSets, TLC

VARIABLES
    flows,      \* the "WhatsApp Chatbot Flow" table: flow name -> flow document
    settings,   \* the "WhatsApp Chatbot" settings single
    sessions,   \* the "WhatsApp Chatbot Session" table: a sequence, name = index
    outbox,     \* the "WhatsApp Message" documents inserted by the engine, in order
    fired,      \* completion actions executed, in order (the session each ran for)
    now,        \* the clock, in minutes
    wk,         \* each request worker: its position, contact, loaded session, result
    sweep,      \* the scheduled job: its position and the sessions it listed
    call        \* one direct call of an engine function: its arguments and result

vars == <<flows, settings, sessions, outbox, fired, now, wk, sweep, call>>

-----------------------------------------------------------------------------
(* Text *)

None == <<"<None>">>

Truthy(v) == v # None /\ v # <<>>

\* Python's "a or b" on texts
Or(a, b) == IF Truthy(a) THEN a ELSE b

Upper == <<"A","B","C","D","E","F","G","H","I","J","K","L","M",
           "N","O","P","Q","R","S","T","U","V","W","X","Y","Z">>
LowerLetters == <<"a","b","c","d","e","f","g","h","i","j","k","l","m",
                  "n","o","p","q","r","s","t","u","v","w","x","y","z">>

LowerChar(c) ==
    IF \E i \in 1..26 : Upper[i] = c
    THEN LowerLetters[CHOOSE i \in 1..26 : Upper[i] = c]
    ELSE c

\* str.lower()
Lower(s) == [i \in 1..Len(s) |-> LowerChar(s[i])]

IsSpace(c) == c \in {" ", "\n", "\t"}
IsDigit(c) == c \in {"0","1","2","3","4","5","6","7","8","9"}

RECURSIVE LStrip(_)
LStrip(s) == IF s # <<>> /\ IsSpace(Head(s)) THEN LStrip(Tail(s)) ELSE s

RECURSIVE RStrip(_)
RStrip(s) ==
    IF s # <<>> /\ IsSpace(s[Len(s)]) THEN RStrip(SubSeq(s, 1, Len(s) - 1)) ELSE s

\* str.strip()
Strip(s) == RStrip(LStrip(s))

\* str.startswith(p)
StartsWith(s, p) == Len(p) <= Len(s) /\ SubSeq(s, 1, Len(p)) = p

\* p in s
Contains(s, p) == \E i \in 1..(Len(s) - Len(p) + 1) : SubSeq(s, i, i + Len(p) - 1) = p

\* str.replace(pat, rep) for a non-empty pat: leftmost, non-overlapping
RECURSIVE Replace(_, _, _)
Replace(s, pat, rep) ==
    IF s = <<>> THEN <<>>
    ELSE IF StartsWith(s, pat)
         THEN rep \o Replace(SubSeq(s, Len(pat) + 1, Len(s)), pat, rep)
         ELSE <<Head(s)>> \o Replace(Tail(s), pat, rep)

\* str.split(sep) for a one-character sep
RECURSIVE SplitAcc(_, _, _)
SplitAcc(s, sep, cur) ==
    IF s = <<>> THEN <<cur>>
    ELSE IF Head(s) = sep
         THEN <<cur>> \o SplitAcc(Tail(s), sep, <<>>)
         ELSE SplitAcc(Tail(s), sep, Append(cur, Head(s)))

Split(s, sep) == SplitAcc(s, sep, <<>>)

\* [w.strip().lower() for w in s.split(sep) if w.strip()]
RECURSIVE CleanWordsOf(_)
CleanWordsOf(parts) ==
    IF parts = <<>> THEN <<>>
    ELSE IF Strip(Head(parts)) # <<>>
         THEN <<Lower(Strip(Head(parts)))>> \o CleanWordsOf(Tail(parts))
         ELSE CleanWordsOf(Tail(parts))

CleanWords(s, sep) == CleanWordsOf(Split(s, sep))

InSeq(x, seq) == \E i \in 1..Len(seq) : seq[i] = x

RECURSIVE RemoveChars(_, _)
RemoveChars(s, cs) ==
    IF s = <<>> THEN <<>>
    ELSE IF Head(s) \in cs THEN RemoveChars(Tail(s), cs)
         ELSE <<Head(s)>> \o RemoveChars(Tail(s), cs)

-----------------------------------------------------------------------------
(* Values and documents *)

\* a Python value a script or a handler produces:
\*   t = "none" | "text" | "bool" | "step" | "interactive" | "flow" | "template"
\*   s = its text (the "message" entry of a structured response), a = the rest
Val(t, s, a) == [t |-> t, s |-> s, a |-> a]

NoneVal == Val("none", <<>>, <<>>)
TextVal(s) == Val("text", s, <<>>)
BoolVal(b) == Val("bool", IF b THEN <<"T","r","u","e">> ELSE <<"F","a","l","s","e">>, <<>>)
StepVal(step) == Val("step", <<>>, <<step>>)

\* Python truth of a value ("if x", "x or y", "not x")
ValTruthy(v) ==
    CASE v.t = "none" -> FALSE
      [] v.t = "text" -> v.s # <<>>
      [] v.t = "bool" -> v.s = <<"T","r","u","e">>
      [] OTHER -> TRUE

\* str(x)
StrOf(v) ==
    CASE v.t = "none" -> <<"N","o","n","e">>
      [] OTHER -> v.s

\* a JSON field: the text json.dumps wrote, or text that is no JSON, or unset
Json(d) == [kind |-> "json", val |-> d]
BadJson == [kind |-> "bad", val |-> <<>>]
NoJson == [kind |-> "unset", val |-> <<>>]

parse_json(value, default) == IF value.kind = "json" THEN value.val ELSE default

\* an insertion-ordered dict: a sequence of [k, v] entries with distinct keys
HasKey(d, k) == \E i \in 1..Len(d) : d[i].k = k
DictGet(d, k) == d[CHOOSE i \in 1..Len(d) : d[i].k = k].v
DictSet(d, k, v) ==
    IF HasKey(d, k)
    THEN [i \in 1..Len(d) |-> IF d[i].k = k THEN [k |-> k, v |-> v] ELSE d[i]]
    ELSE Append(d, [k |-> k, v |-> v])

\* a script of a step, as the value it leaves in "response"
NoScript == [op |-> "unset", arg |-> <<>>]       \* exec(None) raises
ConstScript(v) == [op |-> "const", arg |-> v]    \* response = v
GetScript(k) == [op |-> "get", arg |-> k]        \* response = data.get(k)
RaiseScript == [op |-> "raise", arg |-> <<>>]    \* raises

\* a skip_condition expression over the collected data
NoCond == [op |-> "unset", arg |-> <<>>]
HasCond(k) == [op |-> "has", arg |-> k]          \* data.get(k)
RaiseCond == [op |-> "raise", arg |-> <<>>]      \* e.g. data[k] on a missing key

\* a validation_regex: unset, not compilable, or a pattern of one character
\* class per position with an optional final "$"
NoRegex == [kind |-> "unset", atoms |-> <<>>, dollar |-> FALSE]
BadRegex == [kind |-> "bad", atoms |-> <<>>, dollar |-> FALSE]
Regex(atoms, dollar) == [kind |-> "re", atoms |-> atoms, dollar |-> dollar]

\* a step with every field unset
DefStep ==
    [ step_name |-> "", idx |-> 0, input_type |-> "", message |-> <<>>,
      message_type |-> "Text", template |-> "", response_script |-> NoScript,
      buttons |-> NoJson, whatsapp_flow |-> "", flow_cta |-> <<>>,
      flow_screen |-> <<>>, options |-> <<>>, validation_regex |-> NoRegex,
      validation_error |-> <<>>, max_retries |-> 0, retry_on_invalid |-> FALSE,
      next_step |-> "", else_next_step |-> "", conditional_next |-> NoJson,
      skip_condition |-> NoCond, store_as |-> <<>>, target_flow |-> "",
      flow_field_mapping |-> NoJson ]

\* "no step": what next(..., None) and a failed lookup yield
NoStep == DefStep

\* a flow with every field unset
DefFlow ==
    [ name |-> "", steps |-> <<>>, cancel_keywords |-> <<>>,
      initial_message |-> <<>>, completion_message |-> <<>>,
      on_complete_action |-> "", create_doctype |-> "", field_mapping |-> NoJson,
      api_endpoint |-> "", custom_script |-> NoScript,
      timeout_message |-> <<>> ]

StepNames(steps) == {steps[i].step_name : i \in 1..Len(steps)}

\* next((s for s in all_steps if s.step_name == name), None)
FindStep(all_steps, name) ==
    IF \E i \in 1..Len(all_steps) : all_steps[i].step_name = name
    THEN all_steps[CHOOSE i \in 1..Len(all_steps) :
                     /\ all_steps[i].step_name = name
                     /\ \A j \in 1..(i - 1) : all_steps[j].step_name # name]
    ELSE NoStep

\* sorted(steps, key=lambda x: x.idx): stable, ascending
RECURSIVE SortedSteps(_)
SortedSteps(steps) ==
    IF steps = <<>> THEN <<>>
    ELSE LET m == CHOOSE i \in 1..Len(steps) :
                    /\ \A j \in 1..Len(steps) : steps[i].idx <= steps[j].idx
                    /\ \A j \in 1..(i - 1) : steps[j].idx # steps[i].idx
             rest == [j \in 1..(Len(steps) - 1) |->
                        IF j < m THEN steps[j] ELSE steps[j + 1]]
         IN <<steps[m]>> \o SortedSteps(rest)

-----------------------------------------------------------------------------
(* flow_engine.py: input validation *)

IsNoStep(step) == step.step_name = ""

\* re.match(r"^-?\d+\.?\d*<<","," ","s",")",";"," ">>" also matches before one final newline
NumberPattern(s) ==
    LET s1 == IF s # <<>> /\ s[Len(s)] = "\n" THEN SubSeq(s, 1, Len(s) - 1) ELSE s
        s2 == IF s1 # <<>> /\ Head(s1) = "-" THEN Tail(s1) ELSE s1
    IN \E n \in 1..Len(s2) :
          /\ \A i \in 1..n : IsDigit(s2[i])
          /\ \/ \A i \in (n + 1)..Len(s2) : IsDigit(s2[i])
             \/ /\ n < Len(s2)
                /\ s2[n + 1] = "."
                /\ \A i \in (n + 2)..Len(s2) : IsDigit(s2[i])

\* re.match(r"^[^@\s]+@[^@\s]+\.[^@\s]+$", s)
EmailPattern(s) ==
    LET s1 == IF s # <<>> /\ s[Len(s)] = "\n" THEN SubSeq(s, 1, Len(s) - 1) ELSE s
        ok(i) == s1[i] # "@" /\ ~IsSpace(s1[i])
    IN \E a \in 2..Len(s1) : \E d \in (a + 2)..(Len(s1) - 1) :
          /\ s1[a] = "@"
          /\ s1[d] = "."
          /\ \A i \in 1..(a - 1) : ok(i)
          /\ \A i \in (a + 1)..Len(s1) : ok(i)

\* re.match(r"^\+?\d{10,15}$", s)
PhonePattern(s) ==
    LET s1 == IF s # <<>> /\ s[Len(s)] = "\n" THEN SubSeq(s, 1, Len(s) - 1) ELSE s
        s2 == IF s1 # <<>> /\ Head(s1) = "+" THEN Tail(s1) ELSE s1
    IN /\ Len(s2) >= 10
       /\ Len(s2) <= 15
       /\ \A i \in 1..Len(s2) : IsDigit(s2[i])

\* the text of an input type name
TypeText(input_type) == IF input_type = "Image" THEN <<"I","m","a","g","e">> ELSE <<"F","i","l","e">>

\* re.match(regex, s): the pattern matches a prefix of s
RegexMatch(regex, s) ==
    LET n == Len(regex.atoms)
    IN /\ Len(s) >= n
       /\ \A i \in 1..n : s[i] \in regex.atoms[i]
       /\ regex.dollar => (Len(s) = n \/ (Len(s) = n + 1 /\ s[n + 1] = "\n"))

DigitValue(c) == CHOOSE v \in 0..9 : <<"0","1","2","3","4","5","6","7","8","9">>[v + 1] = c

RECURSIVE IntOf(_)
IntOf(s) == IF s = <<>> THEN 0 ELSE IntOf(SubSeq(s, 1, Len(s) - 1)) * 10 + DigitValue(s[Len(s)])

AllDigits(s) == \A i \in 1..Len(s) : IsDigit(s[i])

DaysIn(y, m) ==
    IF m \in {4, 6, 9, 11} THEN 30
    ELSE IF m # 2 THEN 31
    ELSE IF (y % 4 = 0 /\ y % 100 # 0) \/ y % 400 = 0 THEN 29 ELSE 28

\* a calendar date of year text y, month text m and day text d, as strptime reads
\* %Y (four digits), %m and %d (one or two digits)
DateFields(y, m, d) ==
    /\ Len(y) = 4 /\ AllDigits(y) /\ IntOf(y) >= 1
    /\ Len(m) \in {1, 2} /\ AllDigits(m) /\ IntOf(m) \in 1..12
    /\ Len(d) \in {1, 2} /\ AllDigits(d) /\ IntOf(d) >= 1
    /\ IntOf(d) <= DaysIn(IntOf(y), IntOf(m))

\* one of "%Y-%m-%d", "%d-%m-%Y", "%d/%m/%Y", "%m/%d/%Y" parses s
DatePattern(s) ==
    LET dash == Split(s, "-")
        slash == Split(s, "/")
    IN \/ Len(dash) = 3 /\ DateFields(dash[1], dash[2], dash[3])
       \/ Len(dash) = 3 /\ DateFields(dash[3], dash[2], dash[1])
       \/ Len(slash) = 3 /\ DateFields(slash[3], slash[2], slash[1])
       \/ Len(slash) = 3 /\ DateFields(slash[3], slash[1], slash[2])

Invalid(error) == [valid |-> FALSE, error |-> error]
Valid == [valid |-> TRUE, error |-> None]

\* FlowEngine.validate_input: (is_valid, error)
validate_input(step, user_input, button_payload) ==
    LET input_type == step.input_type
        text == IF user_input = None THEN <<>> ELSE user_input
    IN
    IF input_type \in {"Image", "File"} THEN
        LET val == Strip(text)
        IN IF /\ val # <<>>
              /\ \/ StartsWith(val, <<"/">>)
                 \/ Contains(val, <<"f","i","l","e","s","/">>)
                 \/ StartsWith(val, <<"h","t","t","p">>)
           THEN Valid
           ELSE Invalid(<<"P","l","e","a","s","e"," ","u","p","l","o","a","d"," ","a","n"," ">> \o Lower(TypeText(input_type)) \o <<" ","t","o"," ","c","o","n","t","i","n","u","e",".">>)
    ELSE IF input_type = "Button" THEN
        IF Truthy(button_payload) \/ Truthy(user_input)
        THEN Valid
        ELSE Invalid(<<"P","l","e","a","s","e"," ","t","a","p"," ","a"," ","b","u","t","t","o","n"," ","t","o"," ","c","o","n","t","i","n","u","e",".">>)
    ELSE IF input_type = "WhatsApp Flow" THEN
        IF Truthy(user_input)
        THEN Valid
        ELSE Invalid(<<"P","l","e","a","s","e"," ","c","o","m","p","l","e","t","e"," ","t","h","e"," ","f","o","r","m",".">>)
    ELSE IF input_type = "None" THEN Valid
    ELSE IF ~Truthy(user_input) THEN
        Invalid(<<"P","l","e","a","s","e"," ","p","r","o","v","i","d","e"," ","a"," ","r","e","s","p","o","n","s","e",".">>)
    ELSE IF /\ input_type = "Select"
            /\ step.options # <<>>
            /\ ~InSeq(Lower(text), CleanWords(step.options, "|")) THEN
        Invalid(<<"P","l","e","a","s","e"," ","c","h","o","o","s","e"," ","o","n","e"," ","o","f",":"," ">> \o Replace(step.options, <<"|">>, <<",", " ">>))
    ELSE IF /\ input_type = "Number"
            /\ ~NumberPattern(RemoveChars(text, {",", " "})) THEN
        Invalid(<<"P","l","e","a","s","e"," ","e","n","t","e","r"," ","a"," ","v","a","l","i","d"," ","n","u","m","b","e","r",".">>)
    ELSE IF input_type = "Email" /\ ~EmailPattern(Strip(text)) THEN
        Invalid(<<"P","l","e","a","s","e"," ","e","n","t","e","r"," ","a"," ","v","a","l","i","d"," ","e","m","a","i","l"," ","a","d","d","r","e","s","s",".">>)
    ELSE IF /\ input_type = "Phone"
            /\ ~PhonePattern(RemoveChars(text, {" ", "\n", "\t", "-", "(", ")"})) THEN
        Invalid(<<"P","l","e","a","s","e"," ","e","n","t","e","r"," ","a"," ","v","a","l","i","d"," ","p","h","o","n","e"," ","n","u","m","b","e","r",".">>)
    ELSE IF input_type = "Date" /\ ~DatePattern(Strip(text)) THEN
        Invalid(<<"P","l","e","a","s","e"," ","e","n","t","e","r"," ","a"," ","v","a","l","i","d"," ","d","a","t","e"," ","(","e",".","g",".",","," ","D","D","-","M","M","-","Y","Y","Y","Y",")",".">>)
    ELSE IF /\ step.validation_regex.kind = "re"
            /\ ~RegexMatch(step.validation_regex, text) THEN
        Invalid(IF step.validation_error # <<>> THEN step.validation_error
                ELSE <<"I","n","v","a","l","i","d"," ","f","o","r","m","a","t",".">>)
    ELSE Valid

-----------------------------------------------------------------------------
(* flow_engine.py: scripts, routing and rendering *)

\* FlowEngine.run_response_script: the script's "response", None when it raises
run_response_script(script, data) ==
    CASE script.op = "const" -> script.arg
      [] script.op = "get" ->
            IF HasKey(data, script.arg) THEN TextVal(DictGet(data, script.arg))
            ELSE NoneVal
      [] OTHER -> NoneVal

\* FlowEngine.evaluate_skip_condition: the expression's value, False when it raises
evaluate_skip_condition(condition, data) ==
    CASE condition.op = "has" ->
            HasKey(data, condition.arg) /\ DictGet(data, condition.arg) # <<>>
      [] OTHER -> FALSE

\* conditions.get(key): the mapped step name, "" when there is none
MapGet(mapping, key) == IF HasKey(mapping, key) THEN DictGet(mapping, key) ELSE ""

DefaultKey == <<"d","e","f","a","u","l","t">>

\* the index of the step itself instead of the one after it
PositionalNextSame(current_step, all_steps) ==
    IF \E i \in 1..Len(all_steps) - 1 :
          SortedSteps(all_steps)[i].step_name = current_step.step_name
    THEN current_step.step_name
    ELSE ""

\* the step that follows current_step in index order, "" when it is the last
PositionalNext(current_step, all_steps) ==
    LET sorted_steps == SortedSteps(all_steps)
        hits == {i \in 1..Len(sorted_steps) :
                    /\ sorted_steps[i].step_name = current_step.step_name
                    /\ i < Len(sorted_steps)}
    IN IF hits = {} THEN ""
       ELSE sorted_steps[(CHOOSE i \in hits : \A j \in hits : i <= j) + 1].step_name

\* the resolution with the explicit pointer tried before the mapping
get_next_step_pointer_first(current_step, all_steps, user_input, button_payload) ==
    LET conditions == parse_json(current_step.conditional_next, <<>>)
        clean_input == Lower(Strip(IF Truthy(user_input) THEN user_input ELSE <<>>))
        response_key == Or(button_payload, clean_input)
        by_condition ==
            IF current_step.conditional_next.kind # "unset"
            THEN IF MapGet(conditions, response_key) # ""
                 THEN MapGet(conditions, response_key)
                 ELSE MapGet(conditions, DefaultKey)
            ELSE ""
        by_pointer ==
            IF current_step.next_step # "" THEN current_step.next_step
            ELSE by_condition
        next_step_name ==
            IF by_pointer = "" THEN PositionalNext(current_step, all_steps)
            ELSE by_pointer
    IN IF next_step_name # "" THEN FindStep(all_steps, next_step_name) ELSE NoStep

\* FlowEngine.get_next_step: the next step's document, NoStep for None
get_next_step(current_step, all_steps, user_input, button_payload) ==
    LET conditions == parse_json(current_step.conditional_next, <<>>)
        clean_input == Lower(Strip(IF Truthy(user_input) THEN user_input ELSE <<>>))
        response_key == Or(button_payload, clean_input)
        by_condition ==
            IF current_step.conditional_next.kind # "unset"
            THEN IF MapGet(conditions, response_key) # ""
                 THEN MapGet(conditions, response_key)
                 ELSE MapGet(conditions, DefaultKey)
            ELSE ""
        by_pointer ==
            IF by_condition = "" /\ current_step.next_step # ""
            THEN current_step.next_step
            ELSE by_condition
        next_step_name ==
            IF by_pointer = "" THEN PositionalNext(current_step, all_steps)
            ELSE by_pointer
    IN IF next_step_name # "" THEN FindStep(all_steps, next_step_name) ELSE NoStep

\* the replacement of the first entry's token only
SubstituteFirst(message, data) ==
    IF data = <<>> THEN message
    ELSE Replace(message, <<"{">> \o Head(data).k \o <<"}">>, Head(data).v)

\* message.replace("{key}", str(value)) for every entry of the data, in order
RECURSIVE Substitute(_, _)
Substitute(message, data) ==
    IF data = <<>> THEN message
    ELSE Substitute(Replace(message, <<"{">> \o Head(data).k \o <<"}">>, Head(data).v),
                    Tail(data))

OptionsHint(step) ==
    <<"\n", "\n", "O","p","t","i","o","n","s",":"," ">>
        \o Replace(step.options, <<"|">>, <<",", " ">>)

\* the call-to-action as the step has it, without a default
FlowCtaAsSet(step) == step.flow_cta

\* step.flow_cta or "Open Form"
FlowCta(step) ==
    IF step.flow_cta # <<>> THEN step.flow_cta
    ELSE <<"O","p","e","n"," ","F","o","r","m">>

\* FlowEngine.build_step_message
build_step_message(step, session) ==
    LET session_data == parse_json(session.session_data, <<>>)
        message == Substitute(step.message, session_data)
    IN
    IF step.message_type = "Template" /\ step.template # "" THEN
        Val("template", None, <<step.template>>)
    ELSE IF step.message_type = "Script" /\ step.response_script.op # "unset" THEN
        LET script_response == run_response_script(step.response_script, session_data)
        IN IF ValTruthy(script_response) THEN script_response ELSE TextVal(message)
    ELSE IF /\ step.input_type = "Button"
            /\ parse_json(step.buttons, <<>>) # <<>> THEN
        Val("interactive", message, parse_json(step.buttons, <<>>))
    ELSE IF step.input_type = "WhatsApp Flow" /\ step.whatsapp_flow # "" THEN
        Val("flow", message,
            <<step.whatsapp_flow,
              FlowCta(step),
              IF step.flow_screen # <<>> THEN step.flow_screen ELSE None>>)
    ELSE IF step.input_type = "Select" /\ step.options # <<>> THEN
        TextVal(message \o OptionsHint(step))
    ELSE TextVal(message)

-----------------------------------------------------------------------------
(* The session document and the state a handler works on *)

SilentTypes == {"Send Message", "Condition", "Router", "Jump"}

CompletionActions == {"Create Document", "Call API", "Run Script"}

\* the session document without the initial data
NewSessionWithoutData(name, phone_number, whatsapp_account, flow_name, step_name, initial_data) ==
    [ name |-> name, phone_number |-> phone_number,
      whatsapp_account |-> whatsapp_account, status |-> "Active",
      current_flow |-> flow_name, current_step |-> step_name,
      session_data |-> Json(<<>>), step_retries |-> 0,
      last_activity |-> now, completed_at |-> -1,
      messages |-> <<>> ]

\* frappe.get_doc({"doctype": "WhatsApp Chatbot Session", ...})
NewSession(name, phone_number, whatsapp_account, flow_name, step_name, initial_data) ==
    [ name |-> name, phone_number |-> phone_number,
      whatsapp_account |-> whatsapp_account, status |-> "Active",
      current_flow |-> flow_name, current_step |-> step_name,
      session_data |-> Json(initial_data), step_retries |-> 0,
      last_activity |-> now, completed_at |-> -1,
      messages |-> <<>> ]

\* the session document a worker holds before it has loaded one
NoDoc ==
    [ name |-> 0, phone_number |-> "", whatsapp_account |-> "", status |-> "",
      current_flow |-> "", current_step |-> "", session_data |-> NoJson,
      step_retries |-> 0, last_activity |-> -1,
      completed_at |-> -1, messages |-> <<>> ]

\* what a handler holds while it runs: its in-process session document, the
\* tables it writes, whether an exception is propagating, the exception that
\* frappe.log_error recorded for this call, its result, and the document it
\* passed to session.insert(), if any
Ctx(doc, db, out, acts) ==
    [ doc |-> doc, db |-> db, out |-> out, fired |-> acts,
      exc |-> FALSE, err |-> "", ret |-> NoneVal, created |-> NoDoc ]

Raise(c, kind) == [c EXCEPT !.exc = TRUE, !.err = kind]
Return(c, v) == [c EXCEPT !.ret = v]

\* WhatsAppChatbotSession.before_save
before_save(doc) ==
    IF doc.status = "Active" THEN [doc EXCEPT !.last_activity = now] ELSE doc

\* session.save(): before_save, then the whole document is written to its row
Save(c) ==
    LET d == before_save(c.doc)
    IN [c EXCEPT !.doc = d, !.db = [c.db EXCEPT ![d.name] = d]]

\* WhatsAppChatbotSession.add_message
add_message(c, direction, message, step_name) ==
    [c EXCEPT !.doc.messages =
        Append(@, [direction |-> direction, message |-> message, step_name |-> step_name])]

\* FlowEngine.send_and_log
send_and_log(c, response, step_name) ==
    IF c.exc \/ ~ValTruthy(response) THEN c
    ELSE IF response.t = "bool" THEN Raise(c, "AttributeError")      \* True.get
    ELSE
        LET log_text == response.s
            c1 == Save(add_message(c, "Outgoing", log_text, step_name))
            msg_doc == [ to |-> c.doc.phone_number, type |-> "Outgoing",
                         whatsapp_account |-> c.doc.whatsapp_account,
                         message |-> log_text,
                         content_type |-> IF response.t = "interactive"
                                          THEN "interactive" ELSE "text",
                         session |-> c.doc.name, origin |-> step_name ]
        IN [c1 EXCEPT !.out = Append(@, msg_doc)]

DefaultCompletionMessage == <<"T","h","a","n","k"," ","y","o","u","!"," ","Y","o","u","r"," ","r","e","q","u","e","s","t"," ","h","a","s"," ","b","e","e","n"," ","s","u","b","m","i","t","t","e","d",".">>

\* the fallback of complete_flow's except clause
ReceivedMessage == <<"T","h","a","n","k"," ","y","o","u","!"," ","Y","o","u","r"," ","r","e","q","u","e","s","t"," ","h","a","s"," ","b","e","e","n"," ","r","e","c","e","i","v","e","d",".">>

\* the doctypes of the site and the endpoints that answer with a 2xx status
Doctypes == {"Lead"}
Reachable == {"https://crm.example/hook"}

\* a completion action was dispatched for the session, and how it ended
Fire(c, action, outcome) ==
    [c EXCEPT !.fired = Append(@, [session |-> c.doc.name, action |-> action,
                                   outcome |-> outcome])]

\* FlowEngine.create_document: its own try/except logs every exception
create_document(c, flow, data) ==
    LET mapping == parse_json(flow.field_mapping, <<>>)
        mapped == {i \in 1..Len(mapping) : HasKey(data, mapping[i].v)}
    IN IF \/ flow.create_doctype = ""
          \/ flow.field_mapping.kind = "unset"
          \/ mapping = <<>>
          \/ mapped = {}
       THEN Fire(c, "Create Document", "skipped")
       ELSE Fire(c, "Create Document",
                 IF flow.create_doctype \in Doctypes THEN "done" ELSE "failed")

\* the request without the try/except around it: the HTTP error propagates
call_api_uncaught(c, endpoint, data) ==
    IF endpoint \in Reachable THEN Fire(c, "Call API", "done")
    ELSE Raise(Fire(c, "Call API", "failed"), "HTTPError")

\* FlowEngine.call_api: requests.post and raise_for_status, exceptions logged
call_api(c, endpoint, data) ==
    Fire(c, "Call API", IF endpoint \in Reachable THEN "done" ELSE "failed")

\* FlowEngine.run_script: exec(script), exceptions logged
run_script(c, script, data) ==
    Fire(c, "Run Script", IF script.op \in {"unset", "raise"} THEN "failed" ELSE "done")

\* the dispatch on flow.on_complete_action
RunAction(c, flow, session_data) ==
    CASE flow.on_complete_action = "Create Document" ->
            create_document(c, flow, session_data)
      [] flow.on_complete_action = "Call API" ->
            call_api(c, flow.api_endpoint, session_data)
      [] flow.on_complete_action = "Run Script" ->
            run_script(c, flow.custom_script, session_data)
      [] OTHER -> c

\* the completion message, or the fallback of the except clause
CompletionText(c, flow, session_data) ==
    IF c.exc THEN Return([c EXCEPT !.exc = FALSE], TextVal(ReceivedMessage))
    ELSE Return(c, TextVal(Substitute(IF flow.completion_message # <<>>
                                      THEN flow.completion_message
                                      ELSE DefaultCompletionMessage,
                                      session_data)))

\* the session is Completed and saved, then the action runs
CompleteSession(c1, flow) ==
    CompletionText(RunAction(c1, flow, parse_json(c1.doc.session_data, <<>>)),
                   flow, parse_json(c1.doc.session_data, <<>>))

\* FlowEngine.complete_flow
complete_flow(c, flow) ==
    IF c.exc THEN c
    ELSE CompleteSession(Save([c EXCEPT !.doc.status = "Completed",
                                        !.doc.completed_at = now]), flow)

-----------------------------------------------------------------------------
(* flow_engine.py: silent routing *)

\* the interpreter's recursion limit, counted in silent_route calls
MaxDepth == 6

FlowExists(flow_name) == flow_name \in DOMAIN flows

\* the lookup of the result as the script gave it, without lower-casing
NextPathAsGiven(step_doc, logic_result) ==
    IF step_doc.input_type = "Condition"
    THEN IF ValTruthy(logic_result) THEN step_doc.next_step ELSE step_doc.else_next_step
    ELSE LET mapping == parse_json(step_doc.conditional_next, <<>>)
             key == StrOf(logic_result)
         IN IF MapGet(mapping, key) # "" THEN MapGet(mapping, key)
            ELSE IF MapGet(mapping, DefaultKey) # "" THEN MapGet(mapping, DefaultKey)
            ELSE step_doc.else_next_step

\* a Condition that takes next_step whenever its script gave any result
NextPathUnlessFailed(step_doc, logic_result) ==
    IF step_doc.input_type = "Condition"
    THEN IF logic_result # NoneVal THEN step_doc.next_step ELSE step_doc.else_next_step
    ELSE LET mapping == parse_json(step_doc.conditional_next, <<>>)
             key == Lower(StrOf(logic_result))
         IN IF MapGet(mapping, key) # "" THEN MapGet(mapping, key)
            ELSE IF MapGet(mapping, DefaultKey) # "" THEN MapGet(mapping, DefaultKey)
            ELSE step_doc.else_next_step

\* the branch a Condition or Router step selects, "" for none
NextPath(step_doc, logic_result) ==
    IF step_doc.input_type = "Condition"
    THEN IF ValTruthy(logic_result) THEN step_doc.next_step ELSE step_doc.else_next_step
    ELSE LET mapping == parse_json(step_doc.conditional_next, <<>>)
             key == Lower(StrOf(logic_result))
         IN IF MapGet(mapping, key) # "" THEN MapGet(mapping, key)
            ELSE IF MapGet(mapping, DefaultKey) # "" THEN MapGet(mapping, DefaultKey)
            ELSE step_doc.else_next_step

\* frappe.get_doc("WhatsApp Chatbot Flow", session.current_flow), then complete_flow
CompleteCurrentFlow(c) ==
    IF c.exc THEN c
    ELSE IF ~FlowExists(c.doc.current_flow) THEN Raise(c, "DoesNotExistError")
    ELSE complete_flow(c, flows[c.doc.current_flow])

\* the save without the assignment of current_step
MoveToUnassigned(c, step_name) == Save(c)

\* session.current_step = step_name; session.save()
MoveTo(c, step_name) == Save([c EXCEPT !.doc.current_step = step_name])

\* FlowEngine.silent_route; depth = the calls the interpreter still allows
RECURSIVE silent_route(_, _, _, _)
silent_route(c, step_name, all_steps, depth) ==
    LET step_doc == FindStep(all_steps, step_name)
    IN
    IF c.exc THEN c
    ELSE IF depth = 0 THEN Raise(c, "RecursionError")
    ELSE IF IsNoStep(step_doc) THEN Return(c, NoneVal)
    ELSE IF step_doc.input_type = "Send Message" THEN
        LET msg == build_step_message(step_doc, c.doc)
            c1 == send_and_log(c, msg, step_doc.step_name)
            next_step == get_next_step(step_doc, all_steps, None, None)
        IN IF c1.exc THEN c1
           ELSE IF ~IsNoStep(next_step)
           THEN silent_route(MoveTo(c1, next_step.step_name), next_step.step_name,
                             all_steps, depth - 1)
           ELSE CompleteCurrentFlow(c1)
    ELSE IF step_doc.input_type = "Jump" /\ step_doc.target_flow # "" THEN
        LET c1 == [c EXCEPT !.doc.current_flow = step_doc.target_flow]
        IN IF ~FlowExists(step_doc.target_flow) THEN Raise(c1, "DoesNotExistError")
           ELSE LET new_flow == flows[step_doc.target_flow]
                IN IF new_flow.steps = <<>> THEN Return(c1, NoneVal)
                   ELSE LET first_step == SortedSteps(new_flow.steps)[1]
                        IN silent_route(MoveTo(c1, first_step.step_name),
                                        first_step.step_name, new_flow.steps, depth - 1)
    ELSE IF step_doc.input_type \in {"Condition", "Router"} THEN
        LET session_data == parse_json(c.doc.session_data, <<>>)
            logic_result == run_response_script(step_doc.response_script, session_data)
            next_path == NextPath(step_doc, logic_result)
        IN IF next_path # ""
           THEN silent_route(MoveTo(c, next_path), next_path, all_steps, depth - 1)
           ELSE CompleteCurrentFlow(c)
    ELSE Return(c, StepVal(step_doc))

-----------------------------------------------------------------------------
(* flow_engine.py: process_input and start_flow *)

CancelledMessage == <<"Y","o","u","r"," ","r","e","q","u","e","s","t"," ","h","a","s"," ","b","e","e","n"," ","c","a","n","c","e","l","l","e","d",".">>
TooManyMessage == <<"T","o","o"," ","m","a","n","y"," ","i","n","v","a","l","i","d"," ","a","t","t","e","m","p","t","s","."," ","P","l","e","a","s","e"," ","s","t","a","r","t"," ","a","g","a","i","n",".">>
InvalidInputMessage == <<"I","n","v","a","l","i","d"," ","i","n","p","u","t","."," ","P","l","e","a","s","e"," ","t","r","y"," ","a","g","a","i","n",".">>
ErrorMessage == <<"A","n"," ","e","r","r","o","r"," ","o","c","c","u","r","r","e","d","."," ","P","l","e","a","s","e"," ","t","r","y"," ","a","g","a","i","n"," ","l","a","t","e","r",".">>

DefaultMaxRetries == 3

\* current_step.max_retries or 3
EffectiveMaxRetries(step) ==
    IF step.max_retries # 0 THEN step.max_retries ELSE DefaultMaxRetries

\* the comparison alone, without the retry_on_invalid flag
RetryAllowedWithoutFlag(step, retries) == retries < EffectiveMaxRetries(step)

\* the comparison with <= : one more attempt than max_retries
RetryAllowedInclusive(step, retries) ==
    step.retry_on_invalid /\ retries <= EffectiveMaxRetries(step)

\* whether another attempt is offered after the retries-th invalid input
RetryAllowed(step, retries) ==
    step.retry_on_invalid /\ retries < EffectiveMaxRetries(step)

\* the comparison of the text as typed with the lower-cased keywords
IsCancelAsTyped(flow, user_input) ==
    /\ flow.cancel_keywords # <<>>
    /\ InSeq(user_input, CleanWords(flow.cancel_keywords, ","))

\* user_input.lower() in cancel_words
IsCancel(flow, user_input) ==
    /\ flow.cancel_keywords # <<>>
    /\ InSeq(Lower(user_input), CleanWords(flow.cancel_keywords, ","))

\* the rejection with the invalid input written to the log
RejectInputLogged(c, current_step, error) ==
    LET c1 == add_message([c EXCEPT !.doc.step_retries = @ + 1],
                          "Incoming", error, current_step.step_name)
    IN IF RetryAllowed(current_step, c1.doc.step_retries)
       THEN Return(Save(c1), TextVal(error))
       ELSE Return(Save([c1 EXCEPT !.doc.status = "Cancelled",
                                   !.doc.completed_at = now]),
                   TextVal(TooManyMessage))

\* the invalid-input branch of process_input
RejectInput(c, current_step, error) ==
    LET c1 == [c EXCEPT !.doc.step_retries = @ + 1]
    IN IF RetryAllowed(current_step, c1.doc.step_retries)
       THEN Return(Save(c1),
                   TextVal(IF Truthy(error) THEN error
                           ELSE IF current_step.validation_error # <<>>
                                THEN current_step.validation_error
                                ELSE InvalidInputMessage))
       ELSE Return(Save([c1 EXCEPT !.doc.status = "Cancelled",
                                   !.doc.completed_at = now]),
                   TextVal(TooManyMessage))

\* the store_as branch of process_input
StoreInput(c, current_step, input_value) ==
    IF current_step.store_as # <<>>
    THEN Save([c EXCEPT !.doc.session_data =
                 Json(DictSet(parse_json(c.doc.session_data, <<>>),
                              current_step.store_as, input_value))])
    ELSE c

\* the route out of current_step: get_next_step, and for an Image or File step
\* with no route the silent route from the step after it; the result is in ret
RouteFrom(c, flow, current_step, user_input, button_payload) ==
    LET next_step == get_next_step(current_step, flow.steps, user_input, button_payload)
        after == PositionalNext(current_step, flow.steps)
    IN IF ~IsNoStep(next_step) THEN Return(c, StepVal(next_step))
       ELSE IF current_step.input_type \in {"Image", "File"} /\ after # ""
       THEN silent_route(c, after, flow.steps, MaxDepth)
       ELSE Return(c, NoneVal)

\* the skip_condition branch of process_input, on the step found so far
ApplySkip(c, flow, next_step) ==
    IF /\ next_step.skip_condition.op # "unset"
       /\ evaluate_skip_condition(next_step.skip_condition,
                                  parse_json(c.doc.session_data, <<>>))
    THEN get_next_step(next_step, flow.steps, None, None)
    ELSE next_step

\* the result of silent routing as process_input returns it: a step is rendered
AnswerRouted(r) ==
    IF ~r.exc /\ r.ret.t = "step"
    THEN Return(r, build_step_message(r.ret.a[1], r.doc))
    ELSE r

\* the prompt of an input step, logged when it is text
AnswerPrompt(c, next_step, response) ==
    Return(Save(IF response.t = "text"
                THEN add_message(c, "Outgoing", response.s, next_step.step_name)
                ELSE c),
           response)

\* the tail of process_input, once the session has moved to next_step
AnswerFrom(c, flow, next_step) ==
    IF next_step.input_type \in SilentTypes
    THEN AnswerRouted(silent_route(c, next_step.step_name, flow.steps, MaxDepth))
    ELSE AnswerPrompt(c, next_step, build_step_message(next_step, c.doc))

\* the advance that leaves step_retries as it was
AdvanceKeepingRetries(c, flow, next_step) ==
    AnswerFrom(Save([c EXCEPT !.doc.current_step = next_step.step_name,
                              !.doc.last_activity = now]),
               flow, next_step)

\* session.current_step = next_step.step_name; step_retries = 0; save; answer
Advance(c, flow, next_step) ==
    AnswerFrom(Save([c EXCEPT !.doc.current_step = next_step.step_name,
                              !.doc.step_retries = 0,
                              !.doc.last_activity = now]),
               flow, next_step)

\* process_input after the skip_condition of the step found
AfterSkip(c, flow, next_step) ==
    IF IsNoStep(next_step) THEN complete_flow(c, flow) ELSE Advance(c, flow, next_step)

\* process_input after the route out of the current step, which is in c.ret
AfterRoute(c, flow) ==
    IF c.exc THEN c
    ELSE IF ~ValTruthy(c.ret) THEN complete_flow(c, flow)
    ELSE IF c.ret.t # "step" THEN Raise(c, "AttributeError")        \* str has no skip_condition
    ELSE AfterSkip(c, flow, ApplySkip(c, flow, c.ret.a[1]))

\* process_input from a valid input on
AcceptInput(c, flow, current_step, user_input, button_payload) ==
    AfterRoute(
        RouteFrom(
            add_message(
                IF current_step.input_type \notin {"", "None"}
                THEN StoreInput(c, current_step, Or(button_payload, user_input))
                ELSE c,
                "Incoming", user_input, current_step.step_name),
            flow, current_step, user_input, button_payload),
        flow)

\* process_input on the step the session is at
ProcessStep(c, flow, current_step, user_input, button_payload, checked) ==
    IF IsNoStep(current_step) THEN complete_flow(c, flow)
    ELSE IF current_step.input_type \notin {"", "None"} /\ ~checked.valid
    THEN RejectInput(c, current_step, checked.error)
    ELSE AcceptInput(c, flow, current_step, user_input, button_payload)

\* the body of process_input's try block, given the session's flow
ProcessFlow(c, flow, user_input, button_payload) ==
    IF flow.cancel_keywords # <<>> /\ user_input = None THEN Raise(c, "AttributeError")
    ELSE IF IsCancel(flow, user_input) THEN
        Return(Save([c EXCEPT !.doc.status = "Cancelled", !.doc.completed_at = now]),
               TextVal(CancelledMessage))
    ELSE ProcessStep(c, flow, FindStep(flow.steps, c.doc.current_step),
                     user_input, button_payload,
                     validate_input(FindStep(flow.steps, c.doc.current_step),
                                    user_input, button_payload))

\* the body of process_input's try block
ProcessBody(c, user_input, button_payload) ==
    IF ~FlowExists(c.doc.current_flow) THEN Raise(c, "DoesNotExistError")
    ELSE ProcessFlow(c, flows[c.doc.current_flow], user_input, button_payload)

\* "except Exception": the handler returns fallback instead of raising
Catch(r, fallback) ==
    IF r.exc THEN [r EXCEPT !.exc = FALSE, !.ret = fallback] ELSE r

\* FlowEngine.process_input
process_input(c, user_input, button_payload) ==
    Catch(ProcessBody(c, user_input, button_payload), TextVal(ErrorMessage))

\* the end of start_flow: a step that awaits input is rendered and sent
FinishStart(c) ==
    IF ~c.exc /\ c.ret.t = "step"
    THEN Return(send_and_log(c, build_step_message(c.ret.a[1], c.doc),
                             c.ret.a[1].step_name),
                build_step_message(c.ret.a[1], c.doc))
    ELSE c

\* start_flow from the first step on
RunFirstStep(c, flow, first_step) ==
    FinishStart(IF first_step.input_type \in SilentTypes
                THEN silent_route(c, first_step.step_name, flow.steps, MaxDepth)
                ELSE Return(c, StepVal(first_step)))

\* the session started with the initial message sent after the first step
StartSessionWelcomeLast(db, out, acts, flow, session) ==
    send_and_log(RunFirstStep([Ctx(session, Append(db, session), out, acts)
                                  EXCEPT !.created = session],
                              flow, SortedSteps(flow.steps)[1]),
                 TextVal(flow.initial_message), "Flow Welcome")

\* start_flow once the session document is built: insert, welcome, first step
StartSession(db, out, acts, flow, session) ==
    RunFirstStep(send_and_log([Ctx(session, Append(db, session), out, acts)
                                  EXCEPT !.created = session],
                              TextVal(flow.initial_message), "Flow Welcome"),
                 flow, SortedSteps(flow.steps)[1])

\* the body of start_flow's try block, once the flow has steps
StartBody(db, out, acts, phone_number, whatsapp_account, flow, initial_data) ==
    StartSession(db, out, acts, flow,
                 NewSession(Len(db) + 1, phone_number, whatsapp_account, flow.name,
                            SortedSteps(flow.steps)[1].step_name, initial_data))

\* FlowEngine.start_flow: None when the flow is missing, has no steps, or raises
start_flow(db, out, acts, phone_number, whatsapp_account, flow_name, initial_data) ==
    IF ~FlowExists(flow_name) \/ flows[flow_name].steps = <<>>
    THEN Ctx(NoDoc, db, out, acts)
    ELSE Catch(StartBody(db, out, acts, phone_number, whatsapp_account,
                         flows[flow_name], initial_data),
               NoneVal)

-----------------------------------------------------------------------------
(* session_manager.py *)

DefaultTimeoutMinutes == 30

\* SessionManager.get_timeout, and the same expression in cleanup_expired_sessions
get_timeout ==
    IF settings.exists /\ settings.session_timeout_minutes # 0
    THEN settings.session_timeout_minutes
    ELSE DefaultTimeoutMinutes

\* filters status = Active, last_activity < threshold
IsExpired(session, timeout_minutes) ==
    session.status = "Active" /\ session.last_activity < now - timeout_minutes

\* frappe.get_all("WhatsApp Chatbot Session", filters=...): the rows that match
RECURSIVE ExpiredRows(_, _)
ExpiredRows(db, timeout_minutes) ==
    IF db = <<>> THEN <<>>
    ELSE LET row == db[Len(db)]
             rest == ExpiredRows(SubSeq(db, 1, Len(db) - 1), timeout_minutes)
         IN IF IsExpired(row, timeout_minutes)
            THEN Append(rest, [name |-> row.name, phone_number |-> row.phone_number,
                               whatsapp_account |-> row.whatsapp_account,
                               current_flow |-> row.current_flow])
            ELSE rest

\* the WhatsApp Message both expiry passes insert; origin names the pass
TimeoutMessage(phone_number, whatsapp_account, message, name, origin) ==
    [ to |-> phone_number, type |-> "Outgoing", whatsapp_account |-> whatsapp_account,
      message |-> message, content_type |-> "text", session |-> name,
      origin |-> origin ]

\* the status set on the document but never saved
MarkTimeoutUnsaved(db, name) == db

\* session.status = "Timeout"; session.completed_at = now; session.save()
MarkTimeout(db, name) ==
    [db EXCEPT ![name] = before_save([@ EXCEPT !.status = "Timeout",
                                               !.completed_at = now])]

\* the loop of expire_old_sessions over the listed rows; an exception ends it
RECURSIVE ExpireLoop(_, _, _)
ExpireLoop(db, out, rows) ==
    IF rows = <<>> THEN [db |-> db, out |-> out]
    ELSE LET name == Head(rows).name
             db1 == MarkTimeout(db, name)
             session == db1[name]
         IN IF session.current_flow = ""
            THEN ExpireLoop(db1, out, Tail(rows))
            ELSE IF ~FlowExists(session.current_flow)
            THEN [db |-> db1, out |-> out]
            ELSE IF flows[session.current_flow].timeout_message # <<>>
            THEN ExpireLoop(db1,
                            Append(out, TimeoutMessage(session.phone_number,
                                                       session.whatsapp_account,
                                                       flows[session.current_flow].timeout_message,
                                                       name, "Inline Timeout")),
                            Tail(rows))
            ELSE ExpireLoop(db1, out, Tail(rows))

\* the loop of cleanup_expired_sessions; an exception skips to the next row
RECURSIVE CleanupLoop(_, _, _)
CleanupLoop(db, out, rows) ==
    IF rows = <<>> THEN [db |-> db, out |-> out]
    ELSE LET row == Head(rows)
             db1 == MarkTimeout(db, row.name)
         IN IF /\ row.current_flow # ""
               /\ FlowExists(row.current_flow)
               /\ flows[row.current_flow].timeout_message # <<>>
            THEN CleanupLoop(db1,
                             Append(out, TimeoutMessage(row.phone_number,
                                                        row.whatsapp_account,
                                                        flows[row.current_flow].timeout_message,
                                                        row.name, "Sweep Timeout")),
                             Tail(rows))
            ELSE CleanupLoop(db1, out, Tail(rows))

\* frappe.db.get_value(..., {phone_number, whatsapp_account, status: Active}, "name"):
\* the names it may return (the query states no order)
ActiveNames(db, phone_number, whatsapp_account) ==
    {i \in 1..Len(db) : /\ db[i].phone_number = phone_number
                        /\ db[i].whatsapp_account = whatsapp_account
                        /\ db[i].status = "Active"}

-----------------------------------------------------------------------------
(* Flows *)

\* the scenario of the specification: name, then age, then a closing message
Survey ==
    [DefFlow EXCEPT
        !.name = "Survey",
        !.steps = <<
            [DefStep EXCEPT !.step_name = "Ask Name", !.idx = 1, !.input_type = "Text",
                            !.message = <<"Y","o","u","r"," ","n","a","m","e","?">>, !.store_as = <<"n","a","m","e">>],
            [DefStep EXCEPT !.step_name = "Ask Age", !.idx = 2, !.input_type = "Number",
                            !.message = <<"Y","o","u","r"," ","a","g","e","?">>, !.store_as = <<"a","g","e">>,
                            !.max_retries = 2, !.retry_on_invalid = TRUE],
            [DefStep EXCEPT !.step_name = "Thanks", !.idx = 3,
                            !.input_type = "Send Message",
                            !.message = <<"H","i"," ","{","n","a","m","e","}",","," ","a","g","e"," ","{","a","g","e","}">>] >>,
        !.cancel_keywords = <<"c","a","n","c","e","l",","," ","S","t","o","p">>,
        !.completion_message = <<"S","a","v","e","d"," ","{","n","a","m","e","}">>,
        !.on_complete_action = "Create Document",
        !.timeout_message = <<"S","e","s","s","i","o","n"," ","e","x","p","i","r","e","d">>]

\* input steps with max_retries 3, 1 and 2
Signup ==
    [DefFlow EXCEPT
        !.name = "Signup",
        !.steps = <<
            [DefStep EXCEPT !.step_name = "Email", !.idx = 1, !.input_type = "Email",
                            !.message = <<"Y","o","u","r"," ","e","m","a","i","l","?">>, !.store_as = <<"e","m","a","i","l">>,
                            !.max_retries = 3, !.retry_on_invalid = TRUE],
            [DefStep EXCEPT !.step_name = "Pin", !.idx = 2, !.input_type = "Number",
                            !.message = <<"P","i","n","?">>,
                            !.max_retries = 1, !.retry_on_invalid = TRUE],
            [DefStep EXCEPT !.step_name = "Code", !.idx = 3, !.input_type = "Number",
                            !.message = <<"C","o","d","e","?">>,
                            !.max_retries = 2, !.retry_on_invalid = TRUE] >>,
        !.on_complete_action = "Call API"]

\* three messages and nothing after them
News ==
    [DefFlow EXCEPT
        !.name = "News",
        !.steps = <<
            [DefStep EXCEPT !.step_name = "N1", !.idx = 1, !.input_type = "Send Message",
                            !.message = <<"o","n","e">>],
            [DefStep EXCEPT !.step_name = "N2", !.idx = 2, !.input_type = "Send Message",
                            !.message = <<"t","w","o">>],
            [DefStep EXCEPT !.step_name = "N3", !.idx = 3, !.input_type = "Send Message",
                            !.message = <<"t","h","r","e","e">>] >>,
        !.on_complete_action = "Run Script"]

\* two messages, then a question
Promo ==
    [DefFlow EXCEPT
        !.name = "Promo",
        !.initial_message = <<"W","e","l","c","o","m","e">>,
        !.steps = <<
            [DefStep EXCEPT !.step_name = "P1", !.idx = 1, !.input_type = "Send Message",
                            !.message = <<"n","e","w">>],
            [DefStep EXCEPT !.step_name = "P2", !.idx = 2, !.input_type = "Send Message",
                            !.message = <<"o","f","f","e","r">>],
            [DefStep EXCEPT !.step_name = "Ask", !.idx = 3, !.input_type = "Text",
                            !.message = <<"I","n","t","e","r","e","s","t","e","d","?">>, !.next_step = "Gate"],
            [DefStep EXCEPT !.step_name = "Gate", !.idx = 4, !.input_type = "Condition",
                            !.response_script = ConstScript(BoolVal(TRUE)),
                            !.next_step = "Gone", !.else_next_step = "Ask"] >>,
        !.timeout_message = <<"S","e","s","s","i","o","n"," ","e","x","p","i","r","e","d">>]

\* two questions
Quiz ==
    [DefFlow EXCEPT
        !.name = "Quiz",
        !.steps = <<
            [DefStep EXCEPT !.step_name = "Q1", !.idx = 1, !.input_type = "Text",
                            !.message = <<"F","i","r","s","t","?">>, !.store_as = <<"a">>],
            [DefStep EXCEPT !.step_name = "Q2", !.idx = 2, !.input_type = "Text",
                            !.message = <<"S","e","c","o","n","d","?">>, !.store_as = <<"b">>] >>,
        !.on_complete_action = "Run Script",
        !.timeout_message = <<"S","e","s","s","i","o","n"," ","e","x","p","i","r","e","d">>]

\* the flow tables of the specifications below
QuizFlows == [n \in {"Quiz"} |-> Quiz]
SurveyFlows == [n \in {"Survey"} |-> Survey]
SignupFlows == [n \in {"Signup"} |-> Signup]
ChainFlows == [n \in {"News", "Promo"} |-> IF n = "News" THEN News ELSE Promo]

MainSettings == [exists |-> TRUE, enabled |-> TRUE, session_timeout_minutes |-> 1]

Phones == {"p1"}
Account == "acc"
Workers == {1, 2}

\* the texts and button payloads of inbound messages
Texts == {<<"S","a","m">>, <<"3","0">>, <<"S","T","O","P">>}
EmailTexts == {<<"n","o","t","-","a","n","-","e","m","a","i","l">>,
               <<"a","@","b",".","c","o">>, <<"3","0">>}
QuizTexts == {<<"x">>, <<"y">>}
Payloads == {None}

-----------------------------------------------------------------------------
(* Requests, the scheduled job and the clock *)

MaxSessions == 2
MaxTime == 2

\* a worker between requests
IdleWorker ==
    [ pc |-> "idle", phone |-> "", doc |-> NoDoc, rows |-> <<>>, op |-> "",
      text |-> None, payload |-> None, ret |-> NoneVal, err |-> "" ]

IdleSweep == [pc |-> "idle", rows |-> <<>>]

AllIdle == (\A w \in Workers : wk[w].pc = "idle") /\ sweep.pc = "idle"

\* no direct call is in progress
NoCall == [fn |-> "", pc |-> "idle"]

InitWith(flow_table, chatbot_settings) ==
    /\ flows = flow_table
    /\ settings = chatbot_settings
    /\ sessions = <<>>
    /\ outbox = <<>>
    /\ fired = <<>>
    /\ now = 0
    /\ wk = [w \in Workers |-> IdleWorker]
    /\ sweep = IdleSweep
    /\ call = NoCall

\* time passes between requests
Tick ==
    /\ AllIdle
    /\ now < MaxTime
    /\ now' = now + 1
    /\ UNCHANGED <<flows, settings, sessions, outbox, fired, wk, sweep, call>>

\* SessionManager.get_active_session from the loop of expire_old_sessions on:
\* the listed rows are expired, then the contact's Active session is looked up
ExpireAndLookup(w, phone, rows) ==
    LET e == ExpireLoop(sessions, outbox, rows)
        names == ActiveNames(e.db, phone, Account)
    IN /\ sessions' = e.db
       /\ outbox' = e.out
       /\ IF names = {}
          THEN wk' = [wk EXCEPT ![w] = [IdleWorker EXCEPT !.pc = "none", !.phone = phone,
                                                         !.op = "get_active_session"]]
          ELSE \E n \in names :
                 wk' = [wk EXCEPT ![w] = [IdleWorker EXCEPT !.pc = "found",
                                                           !.phone = phone,
                                                           !.doc = e.db[n],
                                                           !.op = "get_active_session"]]
       /\ UNCHANGED <<flows, settings, fired, now, sweep, call>>

\* an inbound message of a contact: SessionManager.get_active_session
GetActiveSession(w, phone) ==
    /\ wk[w].pc = "idle"
    /\ ExpireAndLookup(w, phone, ExpiredRows(sessions, get_timeout))

\* get_active_session up to the listing of expire_old_sessions
ExpireList(w, phone) ==
    /\ wk[w].pc = "idle"
    /\ wk' = [wk EXCEPT ![w] = [IdleWorker EXCEPT !.pc = "listed", !.phone = phone,
                                                  !.rows = ExpiredRows(sessions, get_timeout)]]
    /\ UNCHANGED <<flows, settings, sessions, outbox, fired, now, sweep, call>>

\* get_active_session from the listing on
ExpireApply(w) ==
    /\ wk[w].pc = "listed"
    /\ ExpireAndLookup(w, wk[w].phone, wk[w].rows)

\* FlowEngine.process_input on the session the worker loaded
ProcessInput(w, user_input, button_payload) ==
    /\ wk[w].pc = "found"
    /\ LET c == process_input(Ctx(wk[w].doc, sessions, outbox, fired),
                              user_input, button_payload)
       IN /\ sessions' = c.db
          /\ outbox' = c.out
          /\ fired' = c.fired
          /\ wk' = [wk EXCEPT ![w].pc = "done", ![w].op = "process_input",
                              ![w].text = user_input, ![w].payload = button_payload,
                              ![w].ret = c.ret, ![w].err = c.err]
    /\ UNCHANGED <<flows, settings, now, sweep, call>>

\* FlowEngine.start_flow for a contact that has no Active session
StartFlow(w, flow_name) ==
    /\ wk[w].pc = "none"
    /\ Len(sessions) < MaxSessions
    /\ LET c == start_flow(sessions, outbox, fired, wk[w].phone, Account, flow_name, <<>>)
       IN /\ sessions' = c.db
          /\ outbox' = c.out
          /\ fired' = c.fired
          /\ wk' = [wk EXCEPT ![w].pc = "done", ![w].op = "start_flow",
                              ![w].doc = IF Len(c.db) > Len(sessions)
                                         THEN c.db[Len(c.db)] ELSE NoDoc,
                              ![w].ret = c.ret, ![w].err = c.err]
    /\ UNCHANGED <<flows, settings, now, sweep, call>>

\* the message triggers no flow
NoTrigger(w) ==
    /\ wk[w].pc = "none"
    /\ wk' = [wk EXCEPT ![w] = IdleWorker]
    /\ UNCHANGED <<flows, settings, sessions, outbox, fired, now, sweep, call>>

\* the result goes to the transport and the request ends
Respond(w) ==
    /\ wk[w].pc = "done"
    /\ wk' = [wk EXCEPT ![w] = IdleWorker]
    /\ UNCHANGED <<flows, settings, sessions, outbox, fired, now, sweep, call>>

\* the sweep gated on the settings record alone
SweepWhenPresent == settings.exists

SweepEnabled == settings.exists /\ settings.enabled

\* cleanup_expired_sessions, the hourly job
CleanupExpiredSessions ==
    /\ sweep.pc = "idle"
    /\ SweepEnabled
    /\ ExpiredRows(sessions, get_timeout) # <<>>
    /\ LET e == CleanupLoop(sessions, outbox, ExpiredRows(sessions, get_timeout))
       IN sessions' = e.db /\ outbox' = e.out
    /\ UNCHANGED <<flows, settings, fired, now, wk, sweep, call>>

\* cleanup_expired_sessions up to its listing
SweepList ==
    /\ sweep.pc = "idle"
    /\ SweepEnabled
    /\ ExpiredRows(sessions, get_timeout) # <<>>
    /\ sweep' = [pc |-> "listed", rows |-> ExpiredRows(sessions, get_timeout)]
    /\ UNCHANGED <<flows, settings, sessions, outbox, fired, now, wk, call>>

\* cleanup_expired_sessions from its listing on
SweepApply ==
    /\ sweep.pc = "listed"
    /\ LET e == CleanupLoop(sessions, outbox, sweep.rows)
       IN sessions' = e.db /\ outbox' = e.out
    /\ sweep' = IdleSweep
    /\ UNCHANGED <<flows, settings, fired, now, wk, call>>

\* one request at a time, each handler in one step
Requests(texts, payloads) ==
    \/ \E phone \in Phones : GetActiveSession(1, phone)
    \/ \E t \in texts, b \in payloads : ProcessInput(1, t, b)
    \/ \E f \in DOMAIN flows : StartFlow(1, f)
    \/ NoTrigger(1)
    \/ Respond(1)

Init == InitWith(SurveyFlows, MainSettings)

Next == Tick \/ CleanupExpiredSessions \/ Requests(Texts, Payloads)

Spec == Init /\ [][Next]_vars

\* the retry flow
InitRetry == InitWith(SignupFlows, MainSettings)

NextRetry == Tick \/ CleanupExpiredSessions \/ Requests(EmailTexts, Payloads)

SpecRetry == InitRetry /\ [][NextRetry]_vars

\* the message chains
InitChain == InitWith(ChainFlows, MainSettings)

SpecChain == InitChain /\ [][Next]_vars

\* concurrent requests: each worker loads the session, then processes its input
NextConc ==
    \E w \in Workers :
        \/ \E phone \in Phones : GetActiveSession(w, phone)
        \/ \E t \in QuizTexts, b \in Payloads : ProcessInput(w, t, b)
        \/ \E f \in DOMAIN flows : StartFlow(w, f)
        \/ NoTrigger(w)
        \/ Respond(w)

InitConc == InitWith(QuizFlows, MainSettings)

SpecConc == InitConc /\ [][NextConc]_vars

\* a request and the hourly job, interleaved at their reads and writes
NextExpiry ==
    \/ Tick
    \/ SweepList
    \/ SweepApply
    \/ \E phone \in Phones : ExpireList(1, phone)
    \/ ExpireApply(1)
    \/ \E t \in QuizTexts, b \in Payloads : ProcessInput(1, t, b)
    \/ \E f \in DOMAIN flows : StartFlow(1, f)
    \/ NoTrigger(1)
    \/ Respond(1)

SpecExpiry == InitConc /\ [][NextExpiry]_vars

-----------------------------------------------------------------------------
(* Flow sets whose silent steps point anywhere *)

RouteNames == {"S1", "S2", "S3"}

MsgStep(name, idx, next) ==
    [DefStep EXCEPT !.step_name = name, !.idx = idx, !.input_type = "Send Message",
                    !.message = <<"m">>, !.next_step = next]

CondStep(name, idx, next, else_next) ==
    [DefStep EXCEPT !.step_name = name, !.idx = idx, !.input_type = "Condition",
                    !.message = <<"c">>,
                    !.response_script = ConstScript(BoolVal(TRUE)),
                    !.next_step = next, !.else_next_step = else_next]

RouterStep(name, idx, target) ==
    [DefStep EXCEPT !.step_name = name, !.idx = idx, !.input_type = "Router",
                    !.response_script = ConstScript(TextVal(<<"v">>)),
                    !.conditional_next = Json(<<[k |-> DefaultKey, v |-> target]>>),
                    !.else_next_step = target]

JumpStep(name, idx, flow_name) ==
    [DefStep EXCEPT !.step_name = name, !.idx = idx, !.input_type = "Jump",
                    !.message = <<"j">>, !.target_flow = flow_name]

AskStep(name, idx) ==
    [DefStep EXCEPT !.step_name = name, !.idx = idx, !.input_type = "Text",
                    !.message = <<"q">>]

\* what a step of flow A may be
StepShapes(name, idx) ==
    {MsgStep(name, idx, t) : t \in RouteNames \cup {""}}
        \cup {CondStep(name, idx, t, e) : t \in RouteNames, e \in RouteNames}
        \cup {RouterStep(name, idx, t) : t \in RouteNames}
        \cup {JumpStep(name, idx, f) : f \in {"A", "B"}}
        \cup {AskStep(name, idx)}

\* what the step of flow B may be
BackShapes == {AskStep("T1", 1), MsgStep("T1", 1, ""), JumpStep("T1", 1, "A")}

RouteFlows(s1, s2, t1) ==
    [n \in {"A", "B"} |->
        IF n = "A"
        THEN [DefFlow EXCEPT !.name = "A", !.steps = <<s1, s2, AskStep("S3", 3)>>]
        ELSE [DefFlow EXCEPT !.name = "B", !.steps = <<t1>>]]

InitRoute ==
    \E s1 \in StepShapes("S1", 1), s2 \in StepShapes("S2", 2), t1 \in BackShapes :
        InitWith(RouteFlows(s1, s2, t1), MainSettings)

\* the inbound messages a session has logged
Incoming(doc) ==
    LET IsIncoming(m) == m.direction = "Incoming"
    IN Len(SelectSeq(doc.messages, IsIncoming))

MaxInputs == 2

NextRoute ==
    \/ \E phone \in Phones : GetActiveSession(1, phone)
    \/ \E b \in Payloads :
          Incoming(wk[1].doc) < MaxInputs /\ ProcessInput(1, <<"x">>, b)
    \/ \E f \in DOMAIN flows : StartFlow(1, f)
    \/ NoTrigger(1)
    \/ Respond(1)

SpecRoute == InitRoute /\ [][NextRoute]_vars

-----------------------------------------------------------------------------
(* Sessions of one contact *)

\* the stored sessions of one contact on one account that are Active
ActiveOf(phone, account) ==
    {i \in 1..Len(sessions) :
        /\ sessions[i].phone_number = phone
        /\ sessions[i].whatsapp_account = account
        /\ sessions[i].status = "Active"}



\* C1: whatever start_flow, process_input and expiry calls have run, and
\* however they interleave, a contact has at most one Active session on an
\* account.
C1_OneActiveSession ==
    \A phone \in Phones : Cardinality(ActiveOf(phone, Account)) <= 1

-----------------------------------------------------------------------------
(* Retries *)

\* worker w has just run process_input on the session it loaded
Processed(w) == wk[w].pc = "done" /\ wk[w].op = "process_input"

\* worker w has just run start_flow and a session was created
Started(w) == wk[w].pc = "done" /\ wk[w].op = "start_flow" /\ wk[w].doc.name # 0

\* the step the session of worker w was at when it was loaded
StepBefore(w) ==
    FindStep(flows[wk[w].doc.current_flow].steps, wk[w].doc.current_step)

\* the input of worker w failed the validation of a step that offers retries
InvalidAtRetryStep(w) ==
    /\ Processed(w)
    /\ ~IsCancel(flows[wk[w].doc.current_flow], wk[w].text)
    /\ ~IsNoStep(StepBefore(w))
    /\ StepBefore(w).retry_on_invalid
    /\ StepBefore(w).max_retries >= 1
    /\ ~validate_input(StepBefore(w), wk[w].text, wk[w].payload).valid

\* C2: at a step with retry_on_invalid and max_retries = n, step_retries counts
\* the consecutive invalid inputs (0 when the step is entered); the k-th
\* invalid input with k < n leaves the session Active on the same step and
\* returns the validation error, and the n-th sets it Cancelled and returns
\* the too-many-attempts message.
C2_RetryBound ==
    /\ Started(1) => wk[1].doc.step_retries = 0
    /\ (Processed(1) /\ sessions[wk[1].doc.name].current_step # wk[1].doc.current_step)
          => sessions[wk[1].doc.name].step_retries = 0
    /\ InvalidAtRetryStep(1) =>
         LET before == wk[1].doc
             after == sessions[before.name]
             n == StepBefore(1).max_retries
             k == before.step_retries + 1
         IN /\ k <= n
            /\ IF k < n
               THEN /\ after.status = "Active"
                    /\ after.current_step = before.current_step
                    /\ after.step_retries = k
                    /\ wk[1].ret =
                         TextVal(validate_input(StepBefore(1), wk[1].text,
                                                wk[1].payload).error)
               ELSE /\ after.status = "Cancelled"
                    /\ wk[1].ret = TextVal(TooManyMessage)

\* the third invalid address at the Email step (max_retries 3) cancels
C2_ThirdInvalidEmailCancels ==
    /\ InvalidAtRetryStep(1)
    /\ wk[1].doc.current_step = "Email"
    /\ wk[1].doc.step_retries = 2
    /\ wk[1].text = <<"n","o","t","-","a","n","-","e","m","a","i","l">>
    /\ sessions[wk[1].doc.name].status = "Cancelled"
    /\ wk[1].ret = TextVal(TooManyMessage)

-----------------------------------------------------------------------------
(* Concurrent requests on one session *)

\* process_input on the stored session name, after the call that produced c
ThenProcess(c, name, user_input, button_payload) ==
    process_input(Ctx(c.db[name], c.db, c.out, c.fired), user_input, button_payload)

\* the calls of workers a and b on session doc, one after the other
SerialRun(doc, a, b) ==
    ThenProcess(process_input(Ctx(doc, [sessions EXCEPT ![doc.name] = doc], <<>>, <<>>),
                              wk[a].text, wk[a].payload),
                doc.name, wk[b].text, wk[b].payload)

\* the step pointer, the captured variables, the retry count and the status
SameProgress(s, t) ==
    /\ s.status = t.status
    /\ s.current_step = t.current_step
    /\ s.session_data = t.session_data
    /\ s.step_retries = t.step_retries

\* both workers ran process_input on the same loaded version of one session
BothProcessedSameVersion ==
    Processed(1) /\ Processed(2) /\ wk[1].doc = wk[2].doc

\* C3: two process_input calls that both loaded the session before either
\* saved it leave the stored session as the two calls leave it when run one
\* after the other, in one of the two orders.
C3_Serializable ==
    BothProcessedSameVersion =>
        \/ SameProgress(sessions[wk[1].doc.name],
                        SerialRun(wk[1].doc, 1, 2).db[wk[1].doc.name])
        \/ SameProgress(sessions[wk[1].doc.name],
                        SerialRun(wk[1].doc, 2, 1).db[wk[1].doc.name])

\* how many times the completion action ran for session name
ActionRuns(name) == Cardinality({k \in 1..Len(fired) : fired[k].session = name})

\* C4: the completion action of a session's flow has run exactly once when
\* the session is Completed, and not at all while it is Active or when it is
\* Cancelled or Timeout.
C4_CompletionActionOnce ==
    \A i \in 1..Len(sessions) :
        IF /\ sessions[i].status = "Completed"
           /\ flows[sessions[i].current_flow].on_complete_action \in CompletionActions
        THEN ActionRuns(i) = 1
        ELSE ActionRuns(i) = 0

-----------------------------------------------------------------------------
(* Responses *)

\* C5: process_input returns a response that is not null, whatever the flow,
\* the session and the input are, silent routing included.
C5_AlwaysResponds ==
    \A w \in Workers : Processed(w) => wk[w].ret.t # "none"

-----------------------------------------------------------------------------
(* Message chains *)

\* the messages sent for session name after the flow's welcome, in order
SentAfterWelcome(name) ==
    LET OfSession(m) == m.session = name /\ m.origin # "Flow Welcome"
    IN SelectSeq(outbox, OfSession)

\* a step that only sends its message and passes to the step after it
IsChainStep(step) ==
    /\ step.input_type = "Send Message"
    /\ step.next_step = ""
    /\ step.conditional_next.kind = "unset"

\* the number of chain steps a flow begins with
ChainLength(sorted_steps) ==
    CHOOSE k \in 0..Len(sorted_steps) :
        /\ \A j \in 1..k : IsChainStep(sorted_steps[j])
        /\ k = Len(sorted_steps) \/ ~IsChainStep(sorted_steps[k + 1])

\* start_flow on a flow that begins with k chain steps sent their k messages
\* once each in step order, then stopped as the claim says
ChainDelivered(session, sorted_steps, k, sent) ==
    /\ Len(sent) >= k
    /\ \A j \in 1..k : /\ sent[j].origin = sorted_steps[j].step_name
                       /\ sent[j].message = sorted_steps[j].message
    /\ IF k = Len(sorted_steps)
       THEN Len(sent) = k /\ session.status = "Completed"
       ELSE /\ sorted_steps[k + 1].input_type \notin SilentTypes
            /\ Len(sent) = k + 1
            /\ sent[k + 1].origin = sorted_steps[k + 1].step_name
            /\ session.status = "Active"
            /\ session.current_step = sorted_steps[k + 1].step_name

\* C6: silent routing entered at the first of k consecutive Send Message
\* steps sends each of the k messages once, in step order, and ends at the
\* first step that awaits input (session Active at that step) or, when no step
\* follows, with the session Completed.
C6_ChainSentInOrder ==
    (Started(1) /\ ChainLength(SortedSteps(flows[wk[1].doc.current_flow].steps)) >= 1)
        => ChainDelivered(sessions[wk[1].doc.name],
                          SortedSteps(flows[wk[1].doc.current_flow].steps),
                          ChainLength(SortedSteps(flows[wk[1].doc.current_flow].steps)),
                          SentAfterWelcome(wk[1].doc.name))

\* a chain of three ended the flow, and a chain of two has stopped at a question
C6_BothChainsRan ==
    /\ Started(1)
    /\ wk[1].doc.current_flow = "Promo"
    /\ sessions[wk[1].doc.name].current_step = "Ask"
    /\ Len(SentAfterWelcome(wk[1].doc.name)) = 3
    /\ \E i \in 1..Len(sessions) :
          /\ sessions[i].current_flow = "News"
          /\ sessions[i].status = "Completed"
          /\ Len(SentAfterWelcome(i)) = 3

-----------------------------------------------------------------------------
(* Termination of silent routing *)

\* the steps a Router step can select
RouterTargets(step) ==
    {step.next_step, step.else_next_step}
        \cup {e.v : e \in {parse_json(step.conditional_next, <<>>)[i] :
                            i \in 1..Len(parse_json(step.conditional_next, <<>>))}}

\* no Router step routes to another Router step
NoRouterToRouter ==
    \A f \in DOMAIN flows : \A i \in 1..Len(flows[f].steps) :
        flows[f].steps[i].input_type = "Router" =>
            \A t \in RouterTargets(flows[f].steps[i]) :
                FindStep(flows[f].steps, t).input_type # "Router"

\* every Condition step defines both next_step and else_next_step
ConditionsHaveBothBranches ==
    \A f \in DOMAIN flows : \A i \in 1..Len(flows[f].steps) :
        flows[f].steps[i].input_type = "Condition" =>
            flows[f].steps[i].next_step # "" /\ flows[f].steps[i].else_next_step # ""

\* the silent steps of all flows, as <<flow, step>>
SilentNodes ==
    UNION {{<<f, flows[f].steps[i].step_name>> : i \in 1..Len(flows[f].steps)} :
              f \in DOMAIN flows}

\* the steps silent routing can pass to from step name of flow f
RouteEdges(f, name) ==
    LET step == FindStep(flows[f].steps, name)
        follow == get_next_step(step, flows[f].steps, None, None)
    IN CASE step.input_type = "Send Message" ->
                IF IsNoStep(follow) THEN {} ELSE {<<f, follow.step_name>>}
         [] step.input_type = "Condition" ->
                {<<f, t>> : t \in {step.next_step, step.else_next_step} \ {""}}
         [] step.input_type = "Router" ->
                {<<f, t>> : t \in RouterTargets(step) \ {""}}
         [] step.input_type = "Jump" /\ FlowExists(step.target_flow) ->
                IF flows[step.target_flow].steps = <<>> THEN {}
                ELSE {<<step.target_flow,
                        SortedSteps(flows[step.target_flow].steps)[1].step_name>>}
         [] OTHER -> {}

\* the nodes reached from the set S in at most n more passes
RECURSIVE RouteReach(_, _)
RouteReach(S, n) ==
    IF n = 0 THEN S
    ELSE RouteReach(S \cup UNION {RouteEdges(x[1], x[2]) : x \in S}, n - 1)

\* silent routing can come back to a step it has left
RoutingCycle ==
    \E x \in SilentNodes :
        x \in RouteReach(RouteEdges(x[1], x[2]), Cardinality(SilentNodes))

\* a handler of worker 1 has returned
Returned == wk[1].pc = "done"

-----------------------------------------------------------------------------
(* Expiry *)

\* session s has been idle for longer than the configured timeout
IdlePastTimeout(s) == s.last_activity < now - settings.session_timeout_minutes

\* worker 1 is between get_active_session and what the request does next
LookedUp == wk[1].op = "get_active_session" /\ wk[1].pc \in {"found", "none"}

\* C8: a get_active_session call leaves every Active session that was idle
\* past the timeout with status Timeout, returns no session when the contact's
\* session was one of them, and returns only an Active session that is not idle
\* past the timeout.
C8_LookupExpiresStale ==
    [][ (wk[1].pc = "idle" /\ LookedUp')
          => /\ \A i \in 1..Len(sessions) :
                  (sessions[i].status = "Active" /\ IdlePastTimeout(sessions[i]))
                     => /\ sessions'[i].status = "Timeout"
                        /\ sessions[i].phone_number = wk'[1].phone
                              => wk'[1].pc = "none"
             /\ wk'[1].pc = "found"
                  => /\ wk'[1].doc.status = "Active"
                     /\ ~IdlePastTimeout(wk'[1].doc)
                     /\ wk'[1].doc = sessions'[wk'[1].doc.name] ]_vars

\* the lookup itself has expired the contact's session and returned none
C8_ExpiredByLookup ==
    /\ LookedUp
    /\ wk[1].pc = "none"
    /\ \E i \in 1..Len(sessions) :
          /\ sessions[i].status = "Timeout"
          /\ sessions[i].phone_number = wk[1].phone
          /\ sessions[i].completed_at = now
          /\ \E k \in 1..Len(outbox) :
                outbox[k].session = i /\ outbox[k].origin = "Inline Timeout"

\* the timeout messages emitted for session name, by either pass
TimeoutMessagesOf(name) ==
    {k \in 1..Len(outbox) :
        /\ outbox[k].session = name
        /\ outbox[k].origin \in {"Inline Timeout", "Sweep Timeout"}}

\* C9: a session whose flow defines a timeout message gets exactly one timeout
\* message once it is Timeout and none before, however the hourly sweep and
\* the inline expiry are repeated or interleaved.
C9_OneTimeoutMessage ==
    \A i \in 1..Len(sessions) :
        flows[sessions[i].current_flow].timeout_message # <<>>
            => IF sessions[i].status = "Timeout"
               THEN Cardinality(TimeoutMessagesOf(i)) = 1
               ELSE Cardinality(TimeoutMessagesOf(i)) = 0

-----------------------------------------------------------------------------
(* The survey *)

\* the inbound messages session doc logged at step step_name, in order
InputsAt(doc, step_name) ==
    LET AtStep(m) == m.direction = "Incoming" /\ m.step_name = step_name
    IN SelectSeq(doc.messages, AtStep)

\* the messages sent for session name from step step_name, in order
SentFrom(name, step_name) ==
    LET FromStep(m) == m.session = name /\ m.origin = step_name
    IN SelectSeq(outbox, FromStep)

\* worker 1 has given the survey's last input step a valid answer
AnsweredAge ==
    /\ Processed(1)
    /\ wk[1].doc.current_flow = "Survey"
    /\ wk[1].doc.current_step = "Ask Age"
    /\ ~IsCancel(flows["Survey"], wk[1].text)
    /\ validate_input(StepBefore(1), wk[1].text, wk[1].payload).valid

\* C10: once Ask Name and Ask Age have each had a valid input, the message of
\* Thanks is sent once with {name} and {age} replaced by the two inputs, and
\* the session is Completed.
C10_SurveyCompletes ==
    AnsweredAge =>
        /\ Len(InputsAt(wk[1].doc, "Ask Name")) = 1
        /\ sessions[wk[1].doc.name].status = "Completed"
        /\ Len(SentFrom(wk[1].doc.name, "Thanks")) = 1
        /\ SentFrom(wk[1].doc.name, "Thanks")[1].message =
              <<"H","i"," ">> \o InputsAt(wk[1].doc, "Ask Name")[1].message
                  \o <<","," ","a","g","e"," ">> \o wk[1].text

\* the inputs Sam and 30 have produced "Hi Sam, age 30"
C10_HiSamAge30 ==
    /\ AnsweredAge
    /\ InputsAt(wk[1].doc, "Ask Name")[1].message = <<"S","a","m">>
    /\ wk[1].text = <<"3","0">>
    /\ SentFrom(wk[1].doc.name, "Thanks")[1].message = <<"H","i"," ","S","a","m",","," ","a","g","e"," ","3","0">>
    /\ sessions[wk[1].doc.name].status = "Completed"


-----------------------------------------------------------------------------
(* Direct calls of the engine's functions *)

\* a call that has its arguments and has not run yet
NewCall(fn, args) == [fn |-> fn, pc |-> "args", args |-> args, ret |-> None]

\* the engine at rest on the given tables
AtRest(flow_table, session_rows) ==
    /\ now = 0
    /\ flows = flow_table
    /\ settings = MainSettings
    /\ sessions = session_rows
    /\ outbox = <<>>
    /\ fired = <<>>
    /\ wk = [w \in Workers |-> IdleWorker]
    /\ sweep = IdleSweep

\* the engine at rest, with one call drawn from calls
InitCalls(calls) == AtRest(SurveyFlows, <<>>) /\ call \in calls

\* the call returns with the session, the tables and the result of c
ReturnsCtx(c) ==
    /\ sessions' = c.db
    /\ outbox' = c.out
    /\ fired' = c.fired
    /\ call' = [call EXCEPT !.pc = "ret", !.ret = c]
    /\ UNCHANGED <<flows, settings, now, wk, sweep>>

\* the call returns ret
Returns(ret) ==
    /\ call' = [call EXCEPT !.pc = "ret", !.ret = ret]
    /\ UNCHANGED <<flows, settings, sessions, outbox, fired, now, wk, sweep>>

Pending(fn) == call.fn = fn /\ call.pc = "args"

Done(fn) == call.fn = fn /\ call.pc = "ret"

-----------------------------------------------------------------------------
(* get_next_step on a step with a conditional_next mapping *)

\* the answers mapped by the step under test: two keys and a default,
\* an upper-case key, and a mapping without default
BranchMaps ==
    { <<[k |-> <<"y","e","s">>, v |-> "A"], [k |-> <<"n","o">>, v |-> "B"],
        [k |-> DefaultKey, v |-> "D"]>>,
      <<[k |-> <<"Y","e","s">>, v |-> "A"], [k |-> DefaultKey, v |-> "D"]>>,
      <<[k |-> <<"y","e","s">>, v |-> "A"]>> }

BranchStep(mapping) ==
    [DefStep EXCEPT !.step_name = "Cur", !.idx = 1, !.input_type = "Button",
                    !.conditional_next = Json(mapping)]

BranchSteps(mapping) ==
    << BranchStep(mapping),
       [DefStep EXCEPT !.step_name = "C", !.idx = 2, !.input_type = "Text"],
       [DefStep EXCEPT !.step_name = "A", !.idx = 3, !.input_type = "Text"],
       [DefStep EXCEPT !.step_name = "B", !.idx = 4, !.input_type = "Text"],
       [DefStep EXCEPT !.step_name = "D", !.idx = 5, !.input_type = "Text"] >>

BranchTexts == {None, <<>>, <<"y","e","s">>, <<"Y","E","S">>, <<" ","Y","e","s"," ">>, <<"n","o">>, <<"m","a","y","b","e">>}

BranchPayloads == {None, <<"y","e","s">>, <<"Y","E","S">>, <<"n","o">>, <<"N","O">>}

NextStepCalls ==
    {NewCall("get_next_step", [mapping |-> m, user_input |-> t, button_payload |-> b]) :
        m \in BranchMaps, t \in BranchTexts, b \in BranchPayloads}

GetNextStep ==
    /\ Pending("get_next_step")
    /\ Returns(get_next_step(BranchStep(call.args.mapping),
                             BranchSteps(call.args.mapping),
                             call.args.user_input, call.args.button_payload).step_name)

InitNextStep == InitCalls(NextStepCalls)

NextNextStep == GetNextStep

SpecNextStep == InitNextStep /\ [][NextNextStep]_vars

\* the response the lookup is made with: the payload when there is one,
\* else the trimmed text
ResponseOf(args) ==
    IF Truthy(args.button_payload) THEN args.button_payload
    ELSE Strip(IF Truthy(args.user_input) THEN args.user_input ELSE <<>>)

\* C11: get_next_step on a step with a conditional_next mapping looks up the
\* button payload when there is one and the trimmed text otherwise, ignoring
\* letter case in both cases: a response that differs from a mapping key only
\* in letter case routes to that key's step.
C11_LookupIgnoresCase ==
    Done("get_next_step") =>
        \A i \in 1..Len(call.args.mapping) :
            Lower(call.args.mapping[i].k) = Lower(ResponseOf(call.args))
                => call.ret = call.args.mapping[i].v

-----------------------------------------------------------------------------
(* silent_route on a Router step *)

\* the branches a Router step maps its script's result to
TierMaps ==
    { Json(<<[k |-> <<"v","i","p">>, v |-> "StepA"], [k |-> DefaultKey, v |-> "StepB"]>>),
      Json(<<[k |-> <<"v","i","p">>, v |-> "StepA"], [k |-> <<"g","o","l","d">>, v |-> "StepC"],
             [k |-> DefaultKey, v |-> "StepB"]>>),
      Json(<<[k |-> <<"v","i","p">>, v |-> "StepA"], [k |-> <<"t","r","u","e">>, v |-> "StepC"]>>),
      Json(<<>>),
      NoJson }

\* the scripts of the Router step: a text, a boolean, and one that raises
TierScripts ==
    { ConstScript(TextVal(<<"V","I","P">>)), ConstScript(TextVal(<<"v","i","p">>)),
      ConstScript(TextVal(<<"G","o","l","d">>)), ConstScript(TextVal(<<"n","e","w">>)),
      ConstScript(BoolVal(TRUE)), RaiseScript }

TierElse == {"", "StepE"}

TierStep(name, idx) ==
    [DefStep EXCEPT !.step_name = name, !.idx = idx, !.input_type = "Text",
                    !.message = <<"o","k">>]

Tiers(mapping, script, else_next_step) ==
    [DefFlow EXCEPT
        !.name = "Tiers",
        !.steps = <<
            [DefStep EXCEPT !.step_name = "Route", !.idx = 1, !.input_type = "Router",
                            !.response_script = script,
                            !.conditional_next = mapping,
                            !.else_next_step = else_next_step],
            TierStep("StepA", 2), TierStep("StepB", 3),
            TierStep("StepC", 4), TierStep("StepE", 5) >>,
        !.completion_message = <<"D","o","n","e">>]

InitRouter ==
    \E mapping \in TierMaps, script \in TierScripts, else_next_step \in TierElse :
        /\ AtRest([n \in {"Tiers"} |-> Tiers(mapping, script, else_next_step)],
                  <<NewSession(1, "p1", Account, "Tiers", "Route", <<>>)>>)
        /\ call = NewCall("silent_route", [step_name |-> "Route"])

SilentRoute ==
    /\ Pending("silent_route")
    /\ ReturnsCtx(silent_route(Ctx(sessions[1], sessions, outbox, fired),
                               call.args.step_name,
                               flows[sessions[1].current_flow].steps, MaxDepth))

NextRouter == SilentRoute

SpecRouter == InitRouter /\ [][NextRouter]_vars

\* the Router step under test and what its script yields
RouteStep == FindStep(flows["Tiers"].steps, "Route")

RouteResult == run_response_script(RouteStep.response_script, <<>>)

\* the branch the claim names: the key, else default, else else_next_step
ClaimedBranch ==
    LET mapping == parse_json(RouteStep.conditional_next, <<>>)
        key == Lower(StrOf(RouteResult))
    IN IF HasKey(mapping, key) THEN DictGet(mapping, key)
       ELSE IF HasKey(mapping, DefaultKey) THEN DictGet(mapping, DefaultKey)
       ELSE RouteStep.else_next_step

\* C12: a Router step routes to the step conditional_next maps the lower-cased
\* string form of its script result to, else to conditional_next['default'],
\* else to else_next_step, and completes the flow when none of these exists.
C12_RouterBranch ==
    Done("silent_route") =>
        IF ClaimedBranch # ""
        THEN /\ sessions[1].current_step = ClaimedBranch
             /\ sessions[1].status = "Active"
             /\ call.ret.ret = StepVal(FindStep(flows["Tiers"].steps, ClaimedBranch))
        ELSE /\ sessions[1].status = "Completed"
             /\ sessions[1].current_step = "Route"
             /\ call.ret.ret = TextVal(<<"D","o","n","e">>)

\* the scenario of the claim: {vip: StepA, default: StepB} and 'VIP' gave StepA
C12_VipRoutedToStepA ==
    /\ Done("silent_route")
    /\ RouteStep.conditional_next =
          Json(<<[k |-> <<"v","i","p">>, v |-> "StepA"], [k |-> DefaultKey, v |-> "StepB"]>>)
    /\ RouteResult = TextVal(<<"V","I","P">>)
    /\ sessions[1].current_step = "StepA"

-----------------------------------------------------------------------------
(* Rendering: build_step_message and complete_flow on message templates *)

\* templates with tokens of collected and of absent variables
RenderTemplates ==
    { <<"H","i"," ","{","n","}">>, <<"{","n","}","{","a","}">>, <<"{","x","}"," ","{","n","}">>, <<"{","a","}",".">>, <<"p","l","a","i","n">> }

\* collected variables, in the order they were stored; some values were typed
\* with braces
RenderData ==
    { <<>>,
      <<[k |-> <<"n">>, v |-> <<"S","a","m">>]>>,
      <<[k |-> <<"n">>, v |-> <<"S","a","m">>], [k |-> <<"a">>, v |-> <<"3","0">>]>>,
      <<[k |-> <<"n">>, v |-> <<"{","a","}">>], [k |-> <<"a">>, v |-> <<"3","0">>]>>,
      <<[k |-> <<"n">>, v |-> <<"7">>], [k |-> <<"a">>, v |-> <<"{","n","}">>]>>,
      <<[k |-> <<"n">>, v |-> <<"{","x","}">>]>> }

RenderStep(message) ==
    [DefStep EXCEPT !.step_name = "Show", !.idx = 1, !.input_type = "Text",
                    !.message = message]

RenderFlow(message) ==
    [DefFlow EXCEPT !.name = "Show", !.steps = <<RenderStep(message)>>,
                    !.completion_message = message]

InitRender ==
    \E message \in RenderTemplates, data \in RenderData :
        /\ AtRest([n \in {"Show"} |-> RenderFlow(message)],
                  <<NewSession(1, "p1", Account, "Show", "Show", data)>>)
        /\ call \in {NewCall("build_step_message", [step_name |-> "Show"]),
                     NewCall("complete_flow", [flow |-> "Show"])}

BuildStepMessage ==
    /\ Pending("build_step_message")
    /\ Returns(build_step_message(FindStep(flows["Show"].steps, call.args.step_name),
                                  sessions[1]))

CompleteFlow ==
    /\ Pending("complete_flow")
    /\ ReturnsCtx(complete_flow(Ctx(sessions[1], sessions, outbox, fired),
                                flows[call.args.flow]))

NextRender == BuildStepMessage \/ CompleteFlow

SpecRender == InitRender /\ [][NextRender]_vars

\* the text a call rendered
RenderedText ==
    IF call.fn = "complete_flow" THEN call.ret.ret.s ELSE call.ret.s

\* the template with every token of a collected variable replaced by that
\* variable's value, and every other character kept
RECURSIVE TokensReplaced(_, _)
TokensReplaced(message, data) ==
    LET Token(i) == <<"{">> \o data[i].k \o <<"}">>
        hits == {i \in 1..Len(data) : StartsWith(message, Token(i))}
    IN IF message = <<>> THEN <<>>
       ELSE IF hits # {}
       THEN LET i == CHOOSE j \in hits : TRUE
            IN data[i].v \o
               TokensReplaced(SubSeq(message, Len(Token(i)) + 1, Len(message)), data)
       ELSE <<Head(message)>> \o TokensReplaced(Tail(message), data)

\* C13: rendering a step message or a completion message replaces every
\* {name} token of a collected variable by that variable's value and leaves
\* the tokens of other names unchanged, and rendering the result again with
\* the same variables yields the same text.
C13_RenderReplacesTokensOnce ==
    (Done("build_step_message") \/ Done("complete_flow")) =>
        LET data == parse_json(sessions[1].session_data, <<>>)
        IN /\ RenderedText = TokensReplaced(flows["Show"].completion_message, data)
           /\ Substitute(RenderedText, data) = RenderedText

-----------------------------------------------------------------------------
(* validate_input *)

ValidatedTypes == {"WhatsApp Flow", "None", "Button", "Text", "Number", "Email"}

ValidatedTexts == {None, <<>>, <<"a","n","y"," ","i","n","p","u","t">>, <<"3","0">>, <<"a","@","b",".","c","o">>, <<" ">>}

ValidatedPayloads == {None, <<"o","k">>}

ValidateCalls ==
    {NewCall("validate_input", [input_type |-> ty, user_input |-> t, button_payload |-> b]) :
        ty \in ValidatedTypes, t \in ValidatedTexts, b \in ValidatedPayloads}

ValidateInput ==
    /\ Pending("validate_input")
    /\ Returns(validate_input([DefStep EXCEPT !.step_name = "Form", !.idx = 1,
                                              !.input_type = call.args.input_type],
                              call.args.user_input, call.args.button_payload))

InitValidate == InitCalls(ValidateCalls)

NextValidate == ValidateInput

SpecValidate == InitValidate /\ [][NextValidate]_vars

\* C14: validate_input on a step of input type WhatsApp Flow accepts every
\* input, the empty string and a null input included: valid is true and there
\* is no validation error.
C14_FlowInputAlwaysValid ==
    (Done("validate_input") /\ call.args.input_type = "WhatsApp Flow") =>
        (call.ret.valid /\ call.ret.error = None)

-----------------------------------------------------------------------------
(* complete_flow and the completion actions *)

LeadMapping == Json(<<[k |-> <<"l","e","a","d","_","n","a","m","e">>, v |-> <<"n">>]>>)

\* what a flow can configure as its completion action
ActionSetups ==
    { [DefFlow EXCEPT !.on_complete_action = "" ] }
    \cup { [DefFlow EXCEPT !.on_complete_action = "Create Document",
                           !.create_doctype = d, !.field_mapping = fm] :
              d \in {"", "Lead", "Ghost"}, fm \in {NoJson, LeadMapping} }
    \cup { [DefFlow EXCEPT !.on_complete_action = "Call API", !.api_endpoint = e] :
              e \in {"", "https://crm.example/hook", "https://down.example/hook"} }
    \cup { [DefFlow EXCEPT !.on_complete_action = "Run Script", !.custom_script = sc] :
              sc \in {NoScript, ConstScript(TextVal(<<"o","k">>)), RaiseScript} }

OrderFlow(setup, message) ==
    [setup EXCEPT !.name = "Order",
                  !.steps = <<[DefStep EXCEPT !.step_name = "Ask", !.idx = 1,
                                              !.input_type = "Text",
                                              !.store_as = <<"n">>]>>,
                  !.completion_message = message]

InitComplete ==
    \E setup \in ActionSetups, message \in {<<>>, <<"S","a","v","e","d"," ","{","n","}">>},
       data \in {<<>>, <<[k |-> <<"n">>, v |-> <<"S","a","m">>]>>} :
        /\ AtRest([n \in {"Order"} |-> OrderFlow(setup, message)],
                  <<NewSession(1, "p1", Account, "Order", "Ask", data)>>)
        /\ call = NewCall("complete_flow", [flow |-> "Order"])

NextComplete == CompleteFlow

SpecComplete == InitComplete /\ [][NextComplete]_vars

\* the completion action of the call failed
ActionFailed == \E k \in 1..Len(fired) : fired[k].outcome = "failed"

\* the flow's completion message for the session, the default when none is set
CompletionMessageOf(flow, doc) ==
    Substitute(IF flow.completion_message # <<>> THEN flow.completion_message
               ELSE DefaultCompletionMessage,
               parse_json(doc.session_data, <<>>))

\* C15: when the completion action fails, complete_flow still leaves the
\* session Completed and returns the flow's completion message (the default
\* text when the flow defines none); the action is not run again and no
\* exception reaches the caller.
C15_FailedActionStillCompletes ==
    (Done("complete_flow") /\ ActionFailed) =>
        /\ sessions[1].status = "Completed"
        /\ call.ret.ret = TextVal(CompletionMessageOf(flows["Order"], sessions[1]))
        /\ ~call.ret.exc
        /\ Len(fired) = 1

\* an unreachable endpoint, a flow without completion message: the default text
C15_ApiDownDefaultMessage ==
    /\ Done("complete_flow")
    /\ fired = <<[session |-> 1, action |-> "Call API", outcome |-> "failed"]>>
    /\ flows["Order"].api_endpoint = "https://down.example/hook"
    /\ sessions[1].status = "Completed"
    /\ call.ret.ret = TextVal(DefaultCompletionMessage)

-----------------------------------------------------------------------------
(* Cancellation *)

\* the text of worker w is one of the cancel keywords of its session's flow,
\* letter case ignored
TypedCancelKeyword(w) ==
    LET words == Split(flows[wk[w].doc.current_flow].cancel_keywords, ",")
    IN \E i \in 1..Len(words) :
          /\ Strip(words[i]) # <<>>
          /\ Lower(Strip(words[i])) = Lower(wk[w].text)

\* C16: when the flow defines cancel keywords and the text equals one of them
\* ignoring case, process_input sets the session Cancelled and returns the
\* fixed acknowledgment, at any step and whether or not the text is valid
\* there; the retry counter, the current step and the collected variables are
\* left as they were and no completion action fires.
C16_CancelKeywordCancels ==
    (Processed(1) /\ TypedCancelKeyword(1)) =>
        LET before == wk[1].doc
            after == sessions[wk[1].doc.name]
        IN /\ after.status = "Cancelled"
           /\ wk[1].ret = TextVal(CancelledMessage)
           /\ after.step_retries = before.step_retries
           /\ after.current_step = before.current_step
           /\ after.session_data = before.session_data
           /\ ActionRuns(before.name) = 0

\* 'STOP' at the Number step, after one invalid answer: cancelled, one retry kept
C16_StopAtAgeStep ==
    /\ Processed(1)
    /\ wk[1].text = <<"S","T","O","P">>
    /\ wk[1].doc.current_step = "Ask Age"
    /\ wk[1].doc.step_retries = 1
    /\ ~validate_input(StepBefore(1), wk[1].text, wk[1].payload).valid
    /\ sessions[wk[1].doc.name].status = "Cancelled"
    /\ sessions[wk[1].doc.name].step_retries = 1

-----------------------------------------------------------------------------
(* process_flow_response *)

\* str(d) of a dict of texts: {'k': 'v', ...}
RECURSIVE ReprItems(_)
ReprItems(d) ==
    IF d = <<>> THEN <<>>
    ELSE <<"'">> \o Head(d).k \o <<"'", ":", " ", "'">> \o Head(d).v \o <<"'">>
         \o (IF Len(d) > 1 THEN <<",", " ">> ELSE <<>>) \o ReprItems(Tail(d))

ReprDict(d) == <<"{">> \o ReprItems(d) \o <<"}">>

\* for key, value in flow_response.items(): session_data[key] = value
RECURSIVE CopyFields(_, _)
CopyFields(session_data, flow_response) ==
    IF flow_response = <<>> THEN session_data
    ELSE CopyFields(DictSet(session_data, Head(flow_response).k, Head(flow_response).v),
                    Tail(flow_response))

\* every field of the response stored under its own name, the mapping ignored
MapFieldsAll(session_data, field_mapping, flow_response) ==
    CopyFields(session_data, flow_response)

\* for session_var, flow_field in field_mapping.items():
\*     if flow_field in flow_response: session_data[session_var] = ...
RECURSIVE MapFields(_, _, _)
MapFields(session_data, field_mapping, flow_response) ==
    IF field_mapping = <<>> THEN session_data
    ELSE MapFields(IF HasKey(flow_response, Head(field_mapping).v)
                   THEN DictSet(session_data, Head(field_mapping).k,
                                DictGet(flow_response, Head(field_mapping).v))
                   ELSE session_data,
                   Tail(field_mapping), flow_response)

\* FlowEngine.process_flow_response: the updated session_data
process_flow_response(step, session, flow_response) ==
    LET session_data == parse_json(session.session_data, <<>>)
        field_mapping == parse_json(step.flow_field_mapping, <<>>)
        mapped == IF field_mapping # <<>>
                  THEN MapFields(session_data, field_mapping, flow_response)
                  ELSE CopyFields(session_data, flow_response)
    IN IF flow_response = <<>> THEN session_data
       ELSE IF step.store_as # <<>>
            THEN DictSet(mapped, step.store_as, ReprDict(flow_response))
            ELSE mapped

\* {session_var: flow_field} mappings of a form step
FormMappings ==
    { NoJson, Json(<<>>),
      Json(<<[k |-> <<"c","l","i","e","n","t">>, v |-> <<"n","a","m","e">>]>>),
      Json(<<[k |-> <<"c","l","i","e","n","t">>, v |-> <<"n","a","m","e">>], [k |-> <<"p","h","o","n","e">>, v |-> <<"m","o","b","i","l","e">>]>>),
      Json(<<[k |-> <<"c","l","i","e","n","t">>, v |-> <<"n","a","m","e">>], [k |-> <<"d","a","y">>, v |-> <<"d","a","t","e">>]>>) }

FormStoreAs == {<<>>, <<"f","o","r","m">>, <<"c","l","i","e","n","t">>}

\* what the session has collected before the form comes back
FormData ==
    { <<>>, <<[k |-> <<"c","l","i","e","n","t">>, v |-> <<"o","l","d">>]>>, <<[k |-> <<"l","a","n","g">>, v |-> <<"e","n">>]>> }

FormResponses ==
    { <<>>,
      <<[k |-> <<"n","a","m","e">>, v |-> <<"J","o","h","n">>]>>,
      <<[k |-> <<"n","a","m","e">>, v |-> <<"J","o","h","n">>], [k |-> <<"m","o","b","i","l","e">>, v |-> <<"9","8">>]>>,
      <<[k |-> <<"n","a","m","e">>, v |-> <<"J","o","h","n">>], [k |-> <<"e","x","t","r","a">>, v |-> <<"x">>]>> }

FormStep(mapping, store_as) ==
    [DefStep EXCEPT !.step_name = "Form", !.idx = 1, !.input_type = "WhatsApp Flow",
                    !.flow_field_mapping = mapping, !.store_as = store_as]

FormCalls ==
    {NewCall("process_flow_response",
             [mapping |-> fm, store_as |-> sa, data |-> d, flow_response |-> r]) :
        fm \in FormMappings, sa \in FormStoreAs, d \in FormData, r \in FormResponses}

ProcessFlowResponse ==
    /\ Pending("process_flow_response")
    /\ Returns(process_flow_response(
                  FormStep(call.args.mapping, call.args.store_as),
                  NewSession(1, "p1", Account, "Survey", "Form", call.args.data),
                  call.args.flow_response))

InitForm == InitCalls(FormCalls)

NextForm == ProcessFlowResponse

SpecForm == InitForm /\ [][NextForm]_vars

\* the value a dict holds under a key, if any
Held(d, key) ==
    IF HasKey(d, key) THEN [has |-> TRUE, v |-> DictGet(d, key)]
    ELSE [has |-> FALSE, v |-> <<>>]

Holding(v) == [has |-> TRUE, v |-> v]

\* the names that occur in a call
FormKeys(args) ==
    LET mapping == parse_json(args.mapping, <<>>)
    IN {args.data[i].k : i \in 1..Len(args.data)}
       \cup {mapping[i].k : i \in 1..Len(mapping)}
       \cup {args.flow_response[i].k : i \in 1..Len(args.flow_response)}
       \cup {args.store_as}

\* what the variable key holds after the mapping (or the copy) of the response
MappedValue(args, key) ==
    LET mapping == parse_json(args.mapping, <<>>)
    IN IF mapping # <<>>
       THEN IF HasKey(mapping, key) /\ HasKey(args.flow_response, DictGet(mapping, key))
            THEN Holding(DictGet(args.flow_response, DictGet(mapping, key)))
            ELSE Held(args.data, key)
       ELSE IF HasKey(args.flow_response, key)
            THEN Holding(DictGet(args.flow_response, key))
            ELSE Held(args.data, key)

\* C17 as stated: process_flow_response returns the session variables with,
\* under a non-empty mapping, each mapped variable set from its response field
\* when that field is present and nothing else added; with no mapping, every
\* response field under its own name; unchanged for an empty response.
C17_ResponseMapped ==
    Done("process_flow_response") =>
        IF call.args.flow_response = <<>> THEN call.ret = call.args.data
        ELSE \A key \in FormKeys(call.args) :
                Held(call.ret, key) = MappedValue(call.args, key)

\* C17, amended: as above, and for a non-empty response a step that defines
\* store_as also stores the whole response under that name, in place of a
\* mapped or copied value of the same name.
C17_ResponseMappedAndStored ==
    Done("process_flow_response") =>
        IF call.args.flow_response = <<>> THEN call.ret = call.args.data
        ELSE \A key \in FormKeys(call.args) :
                Held(call.ret, key) =
                    IF call.args.store_as # <<>> /\ key = call.args.store_as
                    THEN Holding(ReprDict(call.args.flow_response))
                    ELSE MappedValue(call.args, key)

\* a mapped field, an unmapped field left out, and the response under store_as
C17_MappedAndStored ==
    /\ Done("process_flow_response")
    /\ call.args.store_as = <<"f","o","r","m">>
    /\ call.args.flow_response =
          <<[k |-> <<"n","a","m","e">>, v |-> <<"J","o","h","n">>], [k |-> <<"e","x","t","r","a">>, v |-> <<"x">>]>>
    /\ call.ret = <<[k |-> <<"l","a","n","g">>, v |-> <<"e","n">>],
                    [k |-> <<"c","l","i","e","n","t">>, v |-> <<"J","o","h","n">>],
                    [k |-> <<"f","o","r","m">>, v |-> <<"{","'","n","a","m","e","'",":"," ","'","J","o","h","n","'",","," ","'","e","x","t","r","a","'",":"," ","'","x","'","}">>]>>

-----------------------------------------------------------------------------
(* keyword_matcher.py: KeywordMatcher *)

\* a "WhatsApp Keyword Reply" document; -1 is an unset date, "" an unset account
DefRule ==
    [ name |-> "", enabled |-> TRUE, priority |-> 0, whatsapp_account |-> "",
      active_from |-> -1, active_until |-> -1, keywords |-> <<>>,
      match_type |-> "Exact", case_sensitive |-> FALSE,
      conditions |-> [op |-> "unset", arg |-> 0] ]

\* a condition over the message: len(message) > n, or an expression that raises
LongerThan(n) == [op |-> "longer", arg |-> n]
RaisingCondition == [op |-> "raise", arg |-> 0]

\* [k.strip() for k in rule.keywords.split(",") if k.strip()]
RECURSIVE StrippedWordsOf(_)
StrippedWordsOf(parts) ==
    IF parts = <<>> THEN <<>>
    ELSE IF Strip(Head(parts)) # <<>>
         THEN <<Strip(Head(parts))>> \o StrippedWordsOf(Tail(parts))
         ELSE StrippedWordsOf(Tail(parts))

\* re.search with a pattern of literal characters; "(" alone does not compile
BadPattern(kw) == kw = <<"(">>

\* one keyword of a rule against the message
KeywordHit(rule, keyword, message_text) ==
    LET text == IF rule.case_sensitive THEN message_text ELSE Lower(message_text)
        kw == IF rule.case_sensitive THEN keyword ELSE Lower(keyword)
    IN CASE rule.match_type = "Exact" -> text = kw
         [] rule.match_type = "Contains" -> Contains(text, kw)
         [] rule.match_type = "Starts With" -> StartsWith(text, kw)
         [] rule.match_type = "Regex" -> ~BadPattern(kw) /\ Contains(text, kw)
         [] OTHER -> FALSE

\* KeywordMatcher.rule_matches
rule_matches(rule, message_text) ==
    LET keywords == StrippedWordsOf(Split(rule.keywords, ","))
    IN /\ rule.keywords # <<>>
       /\ \E i \in 1..Len(keywords) : KeywordHit(rule, keywords[i], message_text)

\* KeywordMatcher.evaluate_conditions: False when the expression raises
evaluate_conditions(conditions, message_text) ==
    conditions.op = "longer" /\ Len(message_text) > conditions.arg

\* the orders "priority asc" can list the enabled rules in
ByPriorityAscending(table) ==
    LET enabled == {r \in table : r.enabled}
        n == Cardinality(enabled)
    IN {rows \in [1..n -> enabled] :
           /\ \A i, j \in 1..n : i # j => rows[i] # rows[j]
           /\ \A i, j \in 1..n : i < j => rows[i].priority <= rows[j].priority}

\* frappe.get_all(filters enabled = 1, order_by "priority desc"): the orders
\* the database can list the enabled rules in (rules of equal priority in any)
ByPriority(table) ==
    LET enabled == {r \in table : r.enabled}
        n == Cardinality(enabled)
    IN {rows \in [1..n -> enabled] :
           /\ \A i, j \in 1..n : i # j => rows[i] # rows[j]
           /\ \A i, j \in 1..n : i < j => rows[i].priority >= rows[j].priority}

\* the account and date filters of load_rules
RuleValid(rule, account, clock) ==
    /\ ~(rule.whatsapp_account # "" /\ rule.whatsapp_account # account)
    /\ ~(rule.active_from # -1 /\ clock < rule.active_from)
    /\ ~(rule.active_until # -1 /\ clock > rule.active_until)

\* KeywordMatcher.load_rules on the rows get_all returned
load_rules(rows, account, clock) ==
    LET Keep(rule) == RuleValid(rule, account, clock)
    IN SelectSeq(rows, Keep)

NoRule == [found |-> FALSE, name |-> ""]

\* KeywordMatcher.match: the first loaded rule that matches and whose
\* conditions hold
match(rules, message_text) ==
    LET Hit(i) == /\ rule_matches(rules[i], message_text)
                  /\ \/ rules[i].conditions.op = "unset"
                     \/ evaluate_conditions(rules[i].conditions, message_text)
        hits == {i \in 1..Len(rules) : Hit(i)}
    IN IF ~Truthy(message_text) \/ hits = {} THEN NoRule
       ELSE [found |-> TRUE,
             name |-> rules[CHOOSE i \in hits : \A j \in hits : i <= j].name]

\* the rules of the tables under test
KeywordRules ==
    { [DefRule EXCEPT !.name = "greet", !.priority = 10,
                      !.keywords = <<"h","e","l","l","o",","," ","h","i",","," ","h","e","y">>],
      [DefRule EXCEPT !.name = "shout", !.priority = 20, !.keywords = <<"H","E","L","L","O">>,
                      !.case_sensitive = TRUE],
      [DefRule EXCEPT !.name = "off", !.priority = 30, !.keywords = <<"h","e","l","l","o">>,
                      !.enabled = FALSE],
      [DefRule EXCEPT !.name = "other", !.priority = 30, !.keywords = <<"h","e","l","l","o">>,
                      !.whatsapp_account = "other"],
      [DefRule EXCEPT !.name = "mine", !.priority = 5, !.keywords = <<"h","i">>,
                      !.whatsapp_account = "acc"],
      [DefRule EXCEPT !.name = "sale", !.priority = 40, !.keywords = <<"h","e","l","l","o">>,
                      !.active_from = 1, !.active_until = 2],
      [DefRule EXCEPT !.name = "long", !.priority = 50, !.keywords = <<"h","e","l","l","o",",","h","e","l","p">>,
                      !.match_type = "Contains", !.conditions = LongerThan(5)],
      [DefRule EXCEPT !.name = "broken", !.priority = 50, !.keywords = <<"h","e","l","l","o">>,
                      !.conditions = RaisingCondition],
      [DefRule EXCEPT !.name = "order", !.priority = 10, !.keywords = <<"h","e">>,
                      !.match_type = "Starts With"],
      [DefRule EXCEPT !.name = "paren", !.priority = 60, !.keywords = <<"(",","," ","h","e","y">>,
                      !.match_type = "Regex"] }

\* tables of at most two rules
RuleTables == {t \in SUBSET KeywordRules : Cardinality(t) <= 2}

MessageTexts == {None, <<>>, <<"h","e","l","l","o">>, <<"H","E","L","L","O">>, <<"h","i">>, <<"h","e","l","l","o","!">>, <<"g","o","o","d","b","y","e">>}

MatchTimes == {0, 1, 3}

InitMatch ==
    /\ now \in MatchTimes
    /\ flows = SurveyFlows
    /\ settings = MainSettings
    /\ sessions = <<>>
    /\ outbox = <<>>
    /\ fired = <<>>
    /\ wk = [w \in Workers |-> IdleWorker]
    /\ sweep = IdleSweep
    /\ call \in {NewCall("match", [rules |-> t, message_text |-> m]) :
                    t \in RuleTables, m \in MessageTexts}

\* KeywordMatcher(account).match(message_text)
Match ==
    /\ Pending("match")
    /\ \E rows \in ByPriority(call.args.rules) :
          Returns(match(load_rules(rows, Account, now), call.args.message_text))

NextMatch == Match

SpecMatch == InitMatch /\ [][NextMatch]_vars

\* the rule's keywords match the text: for Exact, equality with a keyword,
\* ignoring case unless the rule is case-sensitive
KeywordsMatch(rule, text) ==
    IF rule.match_type = "Exact"
    THEN LET words == Split(rule.keywords, ",")
         IN \E i \in 1..Len(words) :
               /\ Strip(words[i]) # <<>>
               /\ IF rule.case_sensitive THEN Strip(words[i]) = text
                  ELSE Lower(Strip(words[i])) = Lower(text)
    ELSE rule_matches(rule, text)

\* the rules of the table that may answer the text
Candidates(table, text) ==
    {r \in table :
        /\ r.enabled
        /\ r.whatsapp_account \in {"", Account}
        /\ (r.active_from = -1 \/ r.active_from <= now)
        /\ (r.active_until = -1 \/ now <= r.active_until)
        /\ KeywordsMatch(r, text)
        /\ (r.conditions.op = "unset" \/
            (r.conditions.op = "longer" /\ Len(text) > r.conditions.arg))}

\* C18: match returns the first rule, in descending priority order among the
\* enabled rules valid for the account and the date window, whose keywords
\* match the message and whose extra condition, if any, holds; it returns
\* None when no rule matches or the message is empty.
C18_FirstMatchingRuleByPriority ==
    Done("match") =>
        LET text == call.args.message_text
            cands == IF Truthy(text) THEN Candidates(call.args.rules, text) ELSE {}
        IN IF cands = {} THEN call.ret = NoRule
           ELSE /\ call.ret.found
                /\ \E r \in cands :
                      /\ r.name = call.ret.name
                      /\ \A q \in cands : q.priority <= r.priority

\* 'HELLO' with the rules "greet" (priority 10) and "shout" (20, case-sensitive)
C18_HigherPriorityRuleAnswers ==
    /\ Done("match")
    /\ call.args.message_text = <<"H","E","L","L","O">>
    /\ {r.name : r \in call.args.rules} = {"greet", "shout"}
    /\ call.ret = [found |-> TRUE, name |-> "shout"]

-----------------------------------------------------------------------------
(* build_step_message on a WhatsApp Flow step *)

\* message type, template and script of the step
LaunchKinds ==
    { [message_type |-> "Text", template |-> "", response_script |-> NoScript],
      [message_type |-> "Template", template |-> "", response_script |-> NoScript],
      [message_type |-> "Template", template |-> "welcome_tpl",
       response_script |-> NoScript],
      [message_type |-> "Script", template |-> "", response_script |-> NoScript],
      [message_type |-> "Script", template |-> "",
       response_script |-> ConstScript(TextVal(<<"f","r","o","m"," ","s","c","r","i","p","t">>))] }

LaunchStep(kind, whatsapp_flow, flow_cta, flow_screen) ==
    [DefStep EXCEPT !.step_name = "Show", !.idx = 1, !.input_type = "WhatsApp Flow",
                    !.message = <<"B","o","o","k",","," ","{","n","}">>,
                    !.message_type = kind.message_type,
                    !.template = kind.template,
                    !.response_script = kind.response_script,
                    !.whatsapp_flow = whatsapp_flow,
                    !.flow_cta = flow_cta,
                    !.flow_screen = flow_screen]

InitLaunch ==
    \E kind \in LaunchKinds, whatsapp_flow \in {"", "booking_form"},
       flow_cta \in {<<>>, <<"B","o","o","k">>}, flow_screen \in {<<>>, <<"D","E","T","A","I","L","S">>},
       data \in {<<>>, <<[k |-> <<"n">>, v |-> <<"S","a","m">>]>>} :
        /\ AtRest([n \in {"Show"} |->
                      [DefFlow EXCEPT !.name = "Show",
                          !.steps = <<LaunchStep(kind, whatsapp_flow, flow_cta,
                                                 flow_screen)>>]],
                  <<NewSession(1, "p1", Account, "Show", "Show", data)>>)
        /\ call = NewCall("build_step_message", [step_name |-> "Show"])

NextLaunch == BuildStepMessage

SpecLaunch == InitLaunch /\ [][NextLaunch]_vars

\* the step a build_step_message call rendered
ShownStep == FindStep(flows["Show"].steps, call.args.step_name)

\* the launch descriptor of the step for the session's variables
IsLaunchDescriptor(ret, step, doc) ==
    /\ ret.t = "flow"
    /\ ret.s = TokensReplaced(step.message, parse_json(doc.session_data, <<>>))
    /\ ret.a[1] = step.whatsapp_flow
    /\ ret.a[2] = IF step.flow_cta = <<>> THEN <<"O","p","e","n"," ","F","o","r","m">> ELSE step.flow_cta
    /\ ret.a[3] = IF step.flow_screen = <<>> THEN None ELSE step.flow_screen

\* the step answers with a template or through its script
TemplateOrScript(step) ==
    \/ step.message_type = "Template" /\ step.template # ""
    \/ step.message_type = "Script" /\ step.response_script.op # "unset"

\* C19 as stated: build_step_message for a step of input type WhatsApp Flow
\* with a configured form returns a launch descriptor with content_type
\* 'flow', the form, the call-to-action (or 'Open Form'), the optional screen
\* and the message with the variables substituted.
C19_FormStepLaunches ==
    (/\ Done("build_step_message")
     /\ ShownStep.input_type = "WhatsApp Flow"
     /\ ShownStep.whatsapp_flow # "")
        => IsLaunchDescriptor(call.ret, ShownStep, sessions[1])

\* C19, amended: the same for a step that neither has message type Template
\* with a template nor message type Script with a response script.
C19_PlainFormStepLaunches ==
    (/\ Done("build_step_message")
     /\ ShownStep.input_type = "WhatsApp Flow"
     /\ ShownStep.whatsapp_flow # ""
     /\ ~TemplateOrScript(ShownStep))
        => IsLaunchDescriptor(call.ret, ShownStep, sessions[1])

\* a form step without call-to-action and screen: 'Open Form', no screen
C19_OpenFormByDefault ==
    /\ Done("build_step_message")
    /\ ShownStep.input_type = "WhatsApp Flow"
    /\ ShownStep.flow_cta = <<>>
    /\ call.ret = Val("flow", <<"B","o","o","k",","," ","S","a","m">>, <<"booking_form", <<"O","p","e","n"," ","F","o","r","m">>, None>>)

-----------------------------------------------------------------------------
(* start_flow *)

\* a flow that has no steps yet
Draft == [DefFlow EXCEPT !.name = "Draft"]

StartFlows ==
    [n \in {"Survey", "News", "Promo", "Draft"} |->
        CASE n = "Survey" -> Survey
          [] n = "News" -> News
          [] n = "Promo" -> Promo
          [] OTHER -> Draft]

\* external_data: None, or a dict
ExternalData ==
    { NoJson, Json(<<>>), Json(<<[k |-> <<"n">>, v |-> <<"S","a","m">>]>>),
      Json(<<[k |-> <<"s","r","c">>, v |-> <<"a","d">>], [k |-> <<"n">>, v |-> <<"K","i","m">>]>>) }

\* external_data if isinstance(external_data, dict) else {}
InitialData(external_data) ==
    IF external_data.kind = "json" THEN external_data.val ELSE <<>>

\* the sessions stored before the call: none, or an ended one of the contact
EarlierSessions ==
    { <<>>,
      <<[NoDoc EXCEPT !.name = 1, !.phone_number = "p1", !.whatsapp_account = Account,
                      !.status = "Cancelled", !.current_flow = "Survey",
                      !.current_step = "Ask Age",
                      !.session_data = Json(<<[k |-> <<"n","a","m","e">>, v |-> <<"S","a","m">>]>>),
                      !.last_activity = 0, !.completed_at = 0]>> }

InitStart ==
    \E rows \in EarlierSessions :
        /\ AtRest(StartFlows, rows)
        /\ call \in {NewCall("start_flow",
                             [phone_number |-> p, flow_name |-> f,
                              external_data |-> d, rows |-> rows]) :
                        p \in {"p1", "p2"},
                        f \in DOMAIN StartFlows \cup {"Missing"},
                        d \in ExternalData}

\* FlowEngine(phone_number, account).start_flow(flow_name, external_data)
StartFlowCall ==
    /\ Pending("start_flow")
    /\ ReturnsCtx(start_flow(sessions, outbox, fired, call.args.phone_number, Account,
                             call.args.flow_name,
                             InitialData(call.args.external_data)))

NextStart == StartFlowCall

SpecStart == InitStart /\ [][NextStart]_vars

\* the step of the flow with the lowest position index
LowestStep(flow) ==
    CHOOSE st \in {flow.steps[i] : i \in 1..Len(flow.steps)} :
        \A i \in 1..Len(flow.steps) : st.idx <= flow.steps[i].idx

\* the variables the caller supplied
SuppliedVariables(args) ==
    IF args.external_data = NoJson THEN <<>> ELSE args.external_data.val

\* C20: start_flow on a flow with at least one step creates exactly one new
\* session, with status Active, that flow as current_flow, the step of lowest
\* position index as current_step, a zero retry count and the supplied initial
\* variables; on a flow with no steps it creates no session and returns null.
C20_StartCreatesOneSession ==
    (Done("start_flow") /\ call.args.flow_name \in DOMAIN flows) =>
        LET flow == flows[call.args.flow_name]
            rows == call.args.rows
            created == call.ret.created
        IN IF flow.steps # <<>>
           THEN /\ Len(sessions) = Len(rows) + 1
                /\ \A i \in 1..Len(rows) : sessions[i] = rows[i]
                /\ sessions[Len(sessions)].name = created.name
                /\ created.phone_number = call.args.phone_number
                /\ created.status = "Active"
                /\ created.current_flow = call.args.flow_name
                /\ created.current_step = LowestStep(flow).step_name
                /\ created.step_retries = 0
                /\ created.session_data = Json(SuppliedVariables(call.args))
           ELSE /\ sessions = rows
                /\ created = NoDoc
                /\ call.ret.ret = NoneVal

\* Survey started for a contact with an ended session, with two variables
C20_SurveyStartedWithData ==
    /\ Done("start_flow")
    /\ call.args.flow_name = "Survey"
    /\ Len(call.args.rows) = 1
    /\ Len(sessions) = 2
    /\ sessions[2].status = "Active"
    /\ sessions[2].current_step = "Ask Name"
    /\ sessions[2].session_data =
          Json(<<[k |-> <<"s","r","c">>, v |-> <<"a","d">>], [k |-> <<"n">>, v |-> <<"K","i","m">>]>>)

-----------------------------------------------------------------------------
(* get_next_step: mapping, pointer, position *)

\* conditional_next of the current step: unset, not JSON, and mappings with and
\* without a default, one of them to a name that is no step of the flow
OrderMaps ==
    { NoJson, BadJson,
      Json(<<[k |-> <<"y","e","s">>, v |-> "A"]>>),
      Json(<<[k |-> <<"y","e","s">>, v |-> "A"], [k |-> DefaultKey, v |-> "B"]>>),
      Json(<<[k |-> <<"y","e","s">>, v |-> "Gone"]>>) }

OrderPointers == {"", "A", "Gone"}

\* the current step before the last step (idx 2) or after it (idx 4)
OrderSteps(mapping, next_step, idx) ==
    << [DefStep EXCEPT !.step_name = "A", !.idx = 1, !.input_type = "Text"],
       [DefStep EXCEPT !.step_name = "Cur", !.idx = idx, !.input_type = "Text",
                       !.conditional_next = mapping, !.next_step = next_step],
       [DefStep EXCEPT !.step_name = "B", !.idx = 3, !.input_type = "Text"] >>

OrderCalls ==
    {NewCall("get_next_step",
             [all_steps |-> OrderSteps(m, p, i), user_input |-> t, button_payload |-> b]) :
        m \in OrderMaps, p \in OrderPointers, i \in {2, 4},
        t \in {None, <<"y","e","s">>, <<" ","Y","E","S"," ">>, <<"n","o">>}, b \in {None, <<"y","e","s">>}}

ResolveNextStep ==
    /\ Pending("get_next_step")
    /\ Returns(get_next_step(FindStep(call.args.all_steps, "Cur"), call.args.all_steps,
                             call.args.user_input, call.args.button_payload).step_name)

InitOrder == InitCalls(OrderCalls)

NextOrder == ResolveNextStep

SpecOrder == InitOrder /\ [][NextOrder]_vars

\* the name the three rules give in their order, "" when none gives one
ResolvedName(args) ==
    LET cur == FindStep(args.all_steps, "Cur")
        mapping == parse_json(cur.conditional_next, <<>>)
        key == IF Truthy(args.button_payload) THEN args.button_payload
               ELSE Lower(Strip(IF Truthy(args.user_input) THEN args.user_input
                                ELSE <<>>))
        after == {s \in StepNames(args.all_steps) :
                    /\ FindStep(args.all_steps, s).idx > cur.idx
                    /\ \A q \in StepNames(args.all_steps) :
                          FindStep(args.all_steps, q).idx > cur.idx
                             => FindStep(args.all_steps, s).idx
                                   <= FindStep(args.all_steps, q).idx}
    IN IF HasKey(mapping, key) THEN DictGet(mapping, key)
       ELSE IF HasKey(mapping, DefaultKey) THEN DictGet(mapping, DefaultKey)
       ELSE IF cur.next_step # "" THEN cur.next_step
       ELSE IF after # {} THEN CHOOSE s \in after : TRUE
       ELSE ""

\* C21 as stated: get_next_step returns the step named by (a) the
\* conditional_next entry of the normalized response, else its default entry,
\* (b) else next_step, (c) else the positional successor, and null exactly
\* when none of the three gives a step.
C21_ResolutionOrder ==
    Done("get_next_step") =>
        /\ call.ret = ResolvedName(call.args)
        /\ (call.ret = "" <=> ResolvedName(call.args) = "")

\* C21, amended: the same, and null also when the name the rules give is not
\* a step of the flow (the later rules are not tried then).
C21_ResolutionOrderOfSteps ==
    Done("get_next_step") =>
        call.ret = IF ResolvedName(call.args) \in StepNames(call.args.all_steps)
                   THEN ResolvedName(call.args)
                   ELSE ""

\* the mapping wins over the pointer, and the last step without either ends
C21_MappingBeforePointer ==
    /\ Done("get_next_step")
    /\ FindStep(call.args.all_steps, "Cur").next_step = "A"
    /\ FindStep(call.args.all_steps, "Cur").conditional_next =
          Json(<<[k |-> <<"y","e","s">>, v |-> "A"], [k |-> DefaultKey, v |-> "B"]>>)
    /\ call.args.user_input = <<"n","o">>
    /\ call.args.button_payload = None
    /\ call.ret = "B"

-----------------------------------------------------------------------------
(* Routing dead ends *)

\* the session waits at a step that its flow does not have
AtDeadEnd(doc) ==
    /\ doc.status = "Active"
    /\ doc.current_flow \in DOMAIN flows
    /\ doc.current_step \notin StepNames(flows[doc.current_flow].steps)

\* C22: whenever no next step can be resolved, in process_input or at any
\* depth of silent routing, the flow is completed: a routing dead end never
\* leaves the session Active and the call never answers with nothing or
\* with an error.
C22_DeadEndCompletes ==
    /\ \A i \in 1..Len(sessions) : ~AtDeadEnd(sessions[i])
    /\ (Processed(1) \/ Started(1)) =>
          /\ wk[1].err = ""
          /\ wk[1].ret = NoneVal => sessions[wk[1].doc.name].status # "Active"

-----------------------------------------------------------------------------
(* silent_route on a malformed step *)

\* a Jump step without target flow, or a Router step whose conditional_next
\* holds no entry
MalformedSteps ==
    { [DefStep EXCEPT !.step_name = "Odd", !.idx = 1, !.input_type = "Jump",
                      !.message = msg, !.next_step = nx] :
         msg \in {<<>>, <<"g","o">>}, nx \in {"", "Ask"} }
    \cup
    { [DefStep EXCEPT !.step_name = "Odd", !.idx = 1, !.input_type = "Router",
                      !.response_script = sc, !.conditional_next = cn,
                      !.else_next_step = el] :
         sc \in TierScripts, cn \in {NoJson, BadJson, Json(<<>>)}, el \in {"", "Ask"} }

OddFlow(step, message) ==
    [DefFlow EXCEPT !.name = "Odd",
                    !.steps = <<step, [DefStep EXCEPT !.step_name = "Ask", !.idx = 2,
                                                       !.input_type = "Text",
                                                       !.message = <<"o","k","?">>]>>,
                    !.completion_message = message]

InitMalformed ==
    \E step \in MalformedSteps, message \in {<<>>, <<"D","o","n","e">>} :
        /\ AtRest([n \in {"Odd"} |-> OddFlow(step, message)],
                  <<NewSession(1, "p1", Account, "Odd", "Odd", <<>>)>>)
        /\ call = NewCall("silent_route", [step_name |-> "Odd"])

SpecMalformed == InitMalformed /\ [][NextRouter]_vars

\* C23: when silent routing meets a Jump step without target flow or a Router
\* step with an empty conditional_next mapping, the malformed step is never
\* returned to be rendered as a prompt and the session is not left Active
\* waiting on it.
C23_MalformedStepNotPrompted ==
    Done("silent_route") =>
        /\ call.ret.ret # StepVal(FindStep(flows["Odd"].steps, "Odd"))
        /\ ~(sessions[1].status = "Active" /\ sessions[1].current_step = "Odd")

-----------------------------------------------------------------------------
(* silent_route across a Jump: flow Main jumps into flow Side *)

\* what the first step of the target flow may be
SideFirst ==
    {AskStep("T1", 1)}
        \cup {MsgStep("T1", 1, t) : t \in {"", "T2", "Gone"}}
        \cup {RouterStep("T1", 1, t) : t \in {"T2", "Gone"}}
        \cup {CondStep("T1", 1, t, e) : t \in {"T2", "Gone"}, e \in {"", "T2"}}
        \cup {JumpStep("T1", 1, f) : f \in {"Main", "Side", "Void"}}

\* the step lists of the target flow: none, one step, or two
SideSteps ==
    {<<>>} \cup {<<t1>> : t1 \in SideFirst}
           \cup {<<t1, AskStep("T2", 2)>> : t1 \in SideFirst}

JumpFlows(side, message) ==
    [n \in {"Main", "Side"} |->
        IF n = "Main"
        THEN [DefFlow EXCEPT !.name = "Main",
                             !.steps = <<MsgStep("Pre", 1, "Go"), JumpStep("Go", 2, "Side"),
                                         AskStep("Ask", 3)>>]
        ELSE [DefFlow EXCEPT !.name = "Side", !.steps = side,
                             !.completion_message = message]]

InitJump ==
    \E side \in SideSteps, message \in {<<>>, <<"D","o","n","e">>}, entry \in {"Pre", "Go"} :
        /\ AtRest(JumpFlows(side, message),
                  <<NewSession(1, "p1", Account, "Main", entry, <<>>)>>)
        /\ call = NewCall("silent_route", [step_name |-> entry])

SpecJump == InitJump /\ [][NextRouter]_vars

\* the flows a session that started in Main can be taken to by Jump steps
JumpTargets ==
    {"Side"} \cup {f \in {"Main"} : \E i \in 1..Len(flows["Side"].steps) :
                        /\ flows["Side"].steps[i].input_type = "Jump"
                        /\ flows["Side"].steps[i].target_flow = f}

\* C24: after silent routing has executed a Jump to a flow with at least one
\* step, the stored session has current_flow equal to a flow jumped to and
\* current_step equal to a step of that flow.
C24_JumpMovesSession ==
    (Done("silent_route") /\ flows["Side"].steps # <<>>) =>
        /\ sessions[1].current_flow \in JumpTargets
        /\ sessions[1].current_step \in StepNames(flows[sessions[1].current_flow].steps)

-----------------------------------------------------------------------------
(* silent_route on a Condition step *)

\* the scripts of the Condition step: true, false, one that raises, none
ForkScripts ==
    {ConstScript(BoolVal(TRUE)), ConstScript(BoolVal(FALSE)), RaiseScript, NoScript}

Fork(script, next_step, else_next_step, message) ==
    [DefFlow EXCEPT
        !.name = "Fork",
        !.steps = <<
            [DefStep EXCEPT !.step_name = "Check", !.idx = 1, !.input_type = "Condition",
                            !.response_script = script,
                            !.next_step = next_step, !.else_next_step = else_next_step],
            TierStep("Pos", 2), TierStep("Yes", 3), TierStep("No", 4) >>,
        !.completion_message = message]

InitCondition ==
    \E script \in ForkScripts, next_step \in {"", "Yes", "Gone"},
       else_next_step \in {"", "No", "Gone"}, message \in {<<>>, <<"D","o","n","e">>},
       data \in {<<>>, <<[k |-> <<"n","a","m","e">>, v |-> <<"S","a","m">>]>>} :
        /\ AtRest([n \in {"Fork"} |-> Fork(script, next_step, else_next_step, message)],
                  <<NewSession(1, "p1", Account, "Fork", "Check", data)>>)
        /\ call = NewCall("silent_route", [step_name |-> "Check"])

SpecCondition == InitCondition /\ [][NextRouter]_vars

\* the branch the Condition step of flow Fork is to take: next_step when its
\* script gives true, else_next_step when it gives false or fails
ForkBranch ==
    LET step == FindStep(flows["Fork"].steps, "Check")
    IN IF step.response_script = ConstScript(BoolVal(TRUE))
       THEN step.next_step ELSE step.else_next_step

\* C25: a Condition step moves the session to its next_step when its script
\* gives true and to its else_next_step when it gives false or fails, answers
\* with that step when it is a step of the flow, never moves to the positional
\* successor, and completes the flow when the selected branch is not set.
C25_ConditionBranch ==
    Done("silent_route") =>
        /\ sessions[1].current_step # "Pos"
        /\ IF ForkBranch # ""
           THEN /\ sessions[1].current_step = ForkBranch
                /\ sessions[1].status = "Active"
                /\ ForkBranch \in StepNames(flows["Fork"].steps) =>
                      call.ret.ret = StepVal(FindStep(flows["Fork"].steps, ForkBranch))
           ELSE /\ sessions[1].current_step = "Check"
                /\ sessions[1].status = "Completed"

\* a failing script takes the else branch
C25_FailedScriptTakesElse ==
    /\ Done("silent_route")
    /\ FindStep(flows["Fork"].steps, "Check").response_script = RaiseScript
    /\ FindStep(flows["Fork"].steps, "Check").next_step = "Yes"
    /\ sessions[1].current_step = "No"

-----------------------------------------------------------------------------
(* process_input called on a stored session *)

ProcessInputCall ==
    /\ Pending("process_input")
    /\ ReturnsCtx(process_input(Ctx(sessions[1], sessions, outbox, fired),
                                call.args.user_input, call.args.button_payload))

-----------------------------------------------------------------------------
(* process_input into optional steps *)

\* the skip conditions of the optional steps
SkipConds == {NoCond, HasCond(<<"n","a","m","e">>), HasCond(<<"v","i","p">>), RaiseCond}

OptStep(name, idx, cond) ==
    [DefStep EXCEPT !.step_name = name, !.idx = idx, !.input_type = "Text",
                    !.message = <<"o","k","?">>, !.skip_condition = cond]

Optional(c1, c2, c3) ==
    [DefFlow EXCEPT
        !.name = "Optional",
        !.steps = <<
            [DefStep EXCEPT !.step_name = "Ask", !.idx = 1, !.input_type = "Text",
                            !.message = <<"N","a","m","e","?">>, !.store_as = <<"n","a","m","e">>],
            OptStep("Opt1", 2, c1), OptStep("Opt2", 3, c2), OptStep("End", 4, c3) >>,
        !.completion_message = <<"D","o","n","e">>]

InitSkip ==
    \E c1 \in SkipConds, c2 \in SkipConds, c3 \in SkipConds,
       data \in {<<>>, <<[k |-> <<"v","i","p">>, v |-> <<"1">>]>>} :
        /\ AtRest([n \in {"Optional"} |-> Optional(c1, c2, c3)],
                  <<NewSession(1, "p1", Account, "Optional", "Ask", data)>>)
        /\ call = NewCall("process_input",
                          [user_input |-> <<"S","a","m">>, button_payload |-> None])

NextSkip == ProcessInputCall

SpecSkip == InitSkip /\ [][NextSkip]_vars

\* the skip_condition of the step a session is at holds for its variables
AtSkippedStep(doc) ==
    LET step == FindStep(flows[doc.current_flow].steps, doc.current_step)
    IN /\ ~IsNoStep(step)
       /\ step.skip_condition.op # "unset"
       /\ evaluate_skip_condition(step.skip_condition, parse_json(doc.session_data, <<>>))

\* C26: after process_input has accepted an input, the session is not on a
\* step whose skip_condition is true for the collected variables.
C26_SkippedStepsNotEntered ==
    (Done("process_input") /\ sessions[1].current_step # "Ask") =>
        ~AtSkippedStep(sessions[1])

-----------------------------------------------------------------------------
(* The variables a session collects *)

\* the names of the variables a session holds
VariablesOf(doc) ==
    {parse_json(doc.session_data, <<>>)[i].k :
        i \in 1..Len(parse_json(doc.session_data, <<>>))}

\* worker w ran process_input with a valid input on a step that stores it
AcceptedWithStore(w) ==
    /\ Processed(w)
    /\ ~IsCancel(flows[wk[w].doc.current_flow], wk[w].text)
    /\ ~IsNoStep(StepBefore(w))
    /\ StepBefore(w).input_type \notin {"", "None"}
    /\ StepBefore(w).store_as # <<>>
    /\ validate_input(StepBefore(w), wk[w].text, wk[w].payload).valid

\* C27: a valid input accepted on a step with store_as = v leaves the stored
\* session with v mapped to the button payload, or to the text when there is
\* no payload, and with every other variable as it was stored before; and no
\* step of the engine removes a variable from a stored session.
C27_VariablesStoredAndKept ==
    [][/\ \A i \in 1..Len(sessions) :
             VariablesOf(sessions[i]) \subseteq VariablesOf(sessions'[i])
       /\ \A w \in Workers :
             (wk[w].pc = "found" /\ AcceptedWithStore(w)') =>
                LET name == wk[w].doc.name
                    before == parse_json(sessions[name].session_data, <<>>)
                    after == parse_json(sessions'[name].session_data, <<>>)
                    v == StepBefore(w).store_as
                IN /\ HasKey(after, v)
                   /\ DictGet(after, v) = Or(wk'[w].payload, wk'[w].text)
                   /\ \A k \in VariablesOf(sessions[name]) \ {v} :
                         HasKey(after, k) /\ DictGet(after, k) = DictGet(before, k)
      ]_vars

-----------------------------------------------------------------------------
(* validate_input on steps with a custom validation regex *)

\* ^\d\d$
TwoDigits ==
    Regex(<<{"0","1","2","3","4","5","6","7","8","9"},
            {"0","1","2","3","4","5","6","7","8","9"}>>, TRUE)

GatedTypes ==
    {"Text", "Select", "Number", "Email", "Phone", "Date", "Button", "Image", "File"}

GatedTexts ==
    {None, <<"a","n","y">>, <<"3","0">>, <<"3","0","0">>, <<"y","e","s">>, <<"a","@","b",".","c","o">>, <<"+","1","2","3","4","5","6","7","8","9","0","1">>,
     <<"2","0","2","4","-","0","1","-","0","5">>, <<"/","f","i","l","e","s","/","a">>}

GatedStep(input_type, regex, error) ==
    [DefStep EXCEPT !.step_name = "Gate", !.idx = 1, !.input_type = input_type,
                    !.options = <<"y","e","s","|","n","o","|","3","0">>,
                    !.validation_regex = regex, !.validation_error = error]

GatedCalls ==
    {NewCall("validate_input",
             [step |-> GatedStep(ty, re, er), user_input |-> t, button_payload |-> b]) :
        ty \in GatedTypes, re \in {NoRegex, BadRegex, TwoDigits},
        er \in {<<>>, <<"T","w","o"," ","d","i","g","i","t","s">>}, t \in GatedTexts, b \in ValidatedPayloads}

ValidateStepInput ==
    /\ Pending("validate_input")
    /\ Returns(validate_input(call.args.step, call.args.user_input,
                              call.args.button_payload))

InitRegex == InitCalls(GatedCalls)

NextRegex == ValidateStepInput

SpecRegex == InitRegex /\ [][NextRegex]_vars

\* the input passes the check of the step's type, the regex left aside
PassesTypeCheck(args) ==
    validate_input([args.step EXCEPT !.validation_regex = NoRegex],
                   args.user_input, args.button_payload).valid

\* C28: on a step of an input type that requires input and that defines a
\* validation regex, an input that passes the check of the type and does not
\* match the regex is rejected with the step's validation_error, or with
\* "Invalid format." when the step has none.
C28_RegexGatesEveryType ==
    (/\ Done("validate_input")
     /\ call.args.step.validation_regex.kind = "re"
     /\ PassesTypeCheck(call.args)
     /\ ~RegexMatch(call.args.step.validation_regex,
                    IF call.args.user_input = None THEN <<>> ELSE call.args.user_input))
        => call.ret = Invalid(IF call.args.step.validation_error # <<>>
                              THEN call.args.step.validation_error
                              ELSE <<"I","n","v","a","l","i","d"," ","f","o","r","m","a","t",".">>)

-----------------------------------------------------------------------------
(* process_input on an Image or File step *)

\* what the step after the media step may be
AfterMedia ==
    { AskStep("Then", 2), MsgStep("Then", 2, ""), MsgStep("Then", 2, "End"),
      CondStep("Then", 2, "End", ""), CondStep("Then", 2, "", ""),
      RouterStep("Then", 2, "End") }

Upload(input_type, next_step, mapping, then) ==
    [DefFlow EXCEPT
        !.name = "Upload",
        !.steps = <<
            [DefStep EXCEPT !.step_name = "Photo", !.idx = 1, !.input_type = input_type,
                            !.message = <<"S","e","n","d"," ","i","t">>, !.store_as = <<"p","h","o","t","o">>,
                            !.next_step = next_step, !.conditional_next = mapping],
            then, AskStep("End", 3) >>,
        !.completion_message = <<"D","o","n","e">>]

InitMedia ==
    \E input_type \in {"Image", "File"}, next_step \in {"", "Gone", "End"},
       mapping \in {NoJson, Json(<<[k |-> DefaultKey, v |-> "Gone"]>>)},
       then \in AfterMedia, user_input \in {<<"/","f","i","l","e","s","/","a">>, <<"h","t","t","p",":","/","/","x">>} :
        /\ AtRest([n \in {"Upload"} |-> Upload(input_type, next_step, mapping, then)],
                  <<NewSession(1, "p1", Account, "Upload", "Photo", <<>>)>>)
        /\ call = NewCall("process_input",
                          [user_input |-> user_input, button_payload |-> None])

NextMedia == ProcessInputCall

SpecMedia == InitMedia /\ [][NextMedia]_vars

\* get_next_step finds no step to go to from the media step
NoRouteMatched ==
    IsNoStep(get_next_step(FindStep(flows["Upload"].steps, "Photo"),
                           flows["Upload"].steps, call.args.user_input,
                           call.args.button_payload))

\* C29: after a valid input on an Image or File step that is not the last
\* step and for which no route was found, process_input does not return the
\* generic error message, and when the step after it in index order asks for
\* an input the session is Active on that step and its prompt is returned.
C29_MediaAdvancesPositionally ==
    (Done("process_input") /\ NoRouteMatched) =>
        /\ call.ret.ret # TextVal(ErrorMessage)
        /\ FindStep(flows["Upload"].steps, "Then").input_type \notin SilentTypes =>
              /\ sessions[1].status = "Active"
              /\ sessions[1].current_step = "Then"
              /\ call.ret.ret = build_step_message(FindStep(flows["Upload"].steps, "Then"),
                                                   sessions[1])

-----------------------------------------------------------------------------
(* What an expiry pass changes *)

\* session i is one an expiry pass is to act on
Stale(i) == sessions[i].status = "Active" /\ IdlePastTimeout(sessions[i])

\* C30: the part of an expiry pass that follows its listing, inline or
\* scheduled, changes only sessions that are Active and idle past the
\* timeout: every other session keeps its status and completion time and gets
\* no timeout message.
C30_ExpiryChangesOnlyStale ==
    [][((sweep.pc = "listed" /\ sweep'.pc = "idle")
            \/ (wk[1].pc = "listed" /\ wk'[1].pc # "listed"))
          => \A i \in 1..Len(sessions) :
                ~Stale(i) =>
                    /\ sessions'[i].status = sessions[i].status
                    /\ sessions'[i].completed_at = sessions[i].completed_at
                    /\ TimeoutMessagesOf(i)' = TimeoutMessagesOf(i) ]_vars

-----------------------------------------------------------------------------
(* cleanup_expired_sessions under every state of the settings *)

\* cleanup_expired_sessions: the session table and the messages it leaves
cleanup_expired_sessions(db, out) ==
    IF ~SweepEnabled THEN [db |-> db, out |-> out]
    ELSE CleanupLoop(db, out, ExpiredRows(db, get_timeout))

CleanupCall ==
    /\ Pending("cleanup_expired_sessions")
    /\ LET e == cleanup_expired_sessions(sessions, outbox)
       IN sessions' = e.db /\ outbox' = e.out
    /\ call' = [call EXCEPT !.pc = "ret"]
    /\ UNCHANGED <<flows, settings, fired, now, wk, sweep>>

\* the settings: absent, switched off, and switched on, timeout unset or 1
SweepSettings ==
    {[exists |-> FALSE, enabled |-> FALSE, session_timeout_minutes |-> 0]}
        \cup {[exists |-> TRUE, enabled |-> e, session_timeout_minutes |-> t] :
                 e \in BOOLEAN, t \in {0, 1}}

\* a session of flow Quiz last active at time t
IdleSession(name, status, t) ==
    [NoDoc EXCEPT !.name = name, !.phone_number = "p1", !.whatsapp_account = Account,
                  !.status = status, !.current_flow = "Quiz", !.current_step = "Q1",
                  !.session_data = Json(<<>>), !.last_activity = t,
                  !.completed_at = IF status = "Active" THEN -1 ELSE t]

\* the sweep runs ten minutes past the default timeout
SweepTime == DefaultTimeoutMinutes + 10

InitSweep ==
    \E st \in SweepSettings, status \in {"Active", "Completed", "Cancelled", "Timeout"},
       t1 \in {0, 35}, t2 \in {0, 39, 40} :
        /\ now = SweepTime
        /\ flows = QuizFlows
        /\ settings = st
        /\ sessions = <<IdleSession(1, status, t1), IdleSession(2, "Active", t2)>>
        /\ outbox = <<>>
        /\ fired = <<>>
        /\ wk = [w \in Workers |-> IdleWorker]
        /\ sweep = IdleSweep
        /\ call = NewCall("cleanup_expired_sessions",
                          [rows |-> <<IdleSession(1, status, t1),
                                      IdleSession(2, "Active", t2)>>])

NextSweep == CleanupCall

SpecSweep == InitSweep /\ [][NextSweep]_vars

\* C31: with the settings absent or their enabled flag off,
\* cleanup_expired_sessions leaves every session as it was and emits no
\* timeout message, however long the sessions have been idle.
C31_DisabledSweepDoesNothing ==
    (Done("cleanup_expired_sessions") /\ (~settings.exists \/ ~settings.enabled)) =>
        /\ sessions = call.args.rows
        /\ outbox = <<>>

\* the sweep was switched off while a session had been idle for 40 minutes
C31_IdleSessionLeftActive ==
    /\ Done("cleanup_expired_sessions")
    /\ settings.exists /\ ~settings.enabled
    /\ sessions[2].status = "Active"
    /\ sessions[2].last_activity = 0
    /\ now = SweepTime

-----------------------------------------------------------------------------
(* The initial message of a flow *)

\* the messages sent to the contact for session name, in order
SentFor(name) ==
    LET ForSession(m) == m.session = name
    IN SelectSeq(outbox, ForSession)

\* C32: when the flow started has an initial message, the log of the session
\* start_flow created begins with that message as an Outgoing entry under the
\* step name "Flow Welcome", and it is the first message sent for the session,
\* ahead of every message of the first step or of silent routing from it.
C32_WelcomeFirst ==
    (/\ Done("start_flow")
     /\ call.args.flow_name \in DOMAIN flows
     /\ flows[call.args.flow_name].steps # <<>>
     /\ flows[call.args.flow_name].initial_message # <<>>) =>
        LET flow == flows[call.args.flow_name]
            log == sessions[call.ret.created.name].messages
            sent == SentFor(call.ret.created.name)
        IN /\ log # <<>>
           /\ log[1] = [direction |-> "Outgoing", message |-> flow.initial_message,
                        step_name |-> "Flow Welcome"]
           /\ sent # <<>>
           /\ sent[1].origin = "Flow Welcome"
           /\ sent[1].message = flow.initial_message
           /\ \A k \in 2..Len(log) : log[k].step_name # "Flow Welcome"

\* Promo was started: its welcome, then its two messages and its question
C32_PromoWelcomedFirst ==
    /\ Done("start_flow")
    /\ call.args.flow_name = "Promo"
    /\ Len(sessions[call.ret.created.name].messages) = 4
    /\ sessions[call.ret.created.name].messages[1].step_name = "Flow Welcome"
    /\ sessions[call.ret.created.name].messages[2].step_name = "P1"

-----------------------------------------------------------------------------
(* The message log of a session *)

\* log a is the beginning of log b
IsPrefix(a, b) == Len(a) <= Len(b) /\ SubSeq(b, 1, Len(a)) = a

\* worker w ran process_input and its input was accepted
Accepted(w) ==
    /\ Processed(w)
    /\ ~IsCancel(flows[wk[w].doc.current_flow], wk[w].text)
    /\ ~IsNoStep(StepBefore(w))
    /\ \/ StepBefore(w).input_type \in {"", "None"}
       \/ validate_input(StepBefore(w), wk[w].text, wk[w].payload).valid

\* C33: every step leaves the entries a stored session log already has in
\* place and in order, and a process_input call that accepts an input appends
\* one Incoming entry with the input text and the name of the step the session
\* was at, followed only by Outgoing entries.
C33_LogAppendOnly ==
    [][/\ \A i \in 1..Len(sessions) : IsPrefix(sessions[i].messages, sessions'[i].messages)
       /\ \A w \in Workers :
             (wk[w].pc = "found" /\ Accepted(w)') =>
                LET old == sessions[wk[w].doc.name].messages
                    new == sessions'[wk[w].doc.name].messages
                IN /\ Len(new) > Len(old)
                   /\ new[Len(old) + 1] =
                         [direction |-> "Incoming", message |-> wk'[w].text,
                          step_name |-> wk[w].doc.current_step]
                   /\ \A k \in (Len(old) + 2)..Len(new) : new[k].direction = "Outgoing"
      ]_vars

-----------------------------------------------------------------------------
(* process_input on a step with and without retry_on_invalid *)

StrictStep(input_type, retry_on_invalid, max_retries) ==
    [DefStep EXCEPT !.step_name = "Strict", !.idx = 1, !.input_type = input_type,
                    !.message = <<"V","a","l","u","e","?">>, !.store_as = <<"v","a","l","u","e">>,
                    !.retry_on_invalid = retry_on_invalid,
                    !.max_retries = max_retries]

StrictFlow(step) ==
    [DefFlow EXCEPT !.name = "Strict",
                    !.steps = <<step, AskStep("End", 2)>>,
                    !.completion_message = <<"D","o","n","e">>]

\* a session waiting at step Strict, its prompt logged
StrictSession(step_retries, data) ==
    [NoDoc EXCEPT !.name = 1, !.phone_number = "p1", !.whatsapp_account = Account,
                  !.status = "Active", !.current_flow = "Strict",
                  !.current_step = "Strict", !.session_data = Json(data),
                  !.step_retries = step_retries, !.last_activity = 0,
                  !.messages = <<[direction |-> "Outgoing",
                                  message |-> <<"V","a","l","u","e","?">>,
                                  step_name |-> "Strict"]>>]

InitStrict ==
    \E input_type \in {"Number", "Email", "Text"}, retry_on_invalid \in BOOLEAN,
       max_retries \in {0, 1, 2, 5}, step_retries \in {0, 1},
       data \in {<<>>, <<[k |-> <<"v","a","l","u","e">>, v |-> <<"o","l","d">>]>>},
       user_input \in {<<>>, <<"a","b","c">>, <<"3","0">>} :
        /\ AtRest([n \in {"Strict"} |->
                      StrictFlow(StrictStep(input_type, retry_on_invalid, max_retries))],
                  <<StrictSession(step_retries, data)>>)
        /\ call = NewCall("process_input",
                          [user_input |-> user_input, button_payload |-> None,
                           row |-> StrictSession(step_retries, data)])

NextStrict == ProcessInputCall

SpecStrict == InitStrict /\ [][NextStrict]_vars

\* the input of the call fails the validation of step Strict
InvalidForStrict ==
    ~validate_input(FindStep(flows["Strict"].steps, "Strict"),
                    call.args.user_input, call.args.button_payload).valid

\* C34: on a step that requires input and has retry_on_invalid unset, an
\* invalid input sets the session Cancelled and the call returns the
\* too-many-attempts message, whatever max_retries is.
C34_NoRetryWithoutFlag ==
    (/\ Done("process_input")
     /\ InvalidForStrict
     /\ ~FindStep(flows["Strict"].steps, "Strict").retry_on_invalid) =>
        /\ sessions[1].status = "Cancelled"
        /\ sessions[1].current_step = "Strict"
        /\ call.ret.ret = TextVal(TooManyMessage)

\* the first invalid number on a step with max_retries 5 and no retry flag
C34_FirstInvalidCancels ==
    /\ Done("process_input")
    /\ FindStep(flows["Strict"].steps, "Strict").input_type = "Number"
    /\ FindStep(flows["Strict"].steps, "Strict").max_retries = 5
    /\ ~FindStep(flows["Strict"].steps, "Strict").retry_on_invalid
    /\ call.args.user_input = <<"a","b","c">>
    /\ sessions[1].step_retries = 1
    /\ sessions[1].status = "Cancelled"

\* C35: a process_input call whose input fails validation leaves the stored
\* session with the flow, step, variables and message log it had, changing
\* only step_retries, last_activity and, when no retry is left, status and
\* completed_at; it sends no message and fires no completion action.
C35_RejectionFrame ==
    (Done("process_input") /\ InvalidForStrict) =>
        /\ [sessions[1] EXCEPT !.step_retries = 0, !.last_activity = 0,
                               !.status = "Active", !.completed_at = -1]
              = [call.args.row EXCEPT !.step_retries = 0]
        /\ sessions[1].status \in {"Active", "Cancelled"}
        /\ sessions[1].status = "Active" => sessions[1].completed_at = -1
        /\ outbox = <<>>
        /\ fired = <<>>

\* an invalid address was rejected on a session that holds a variable
C35_RejectedWithVariableKept ==
    /\ Done("process_input")
    /\ InvalidForStrict
    /\ FindStep(flows["Strict"].steps, "Strict").input_type = "Email"
    /\ call.args.row.session_data # Json(<<>>)
    /\ sessions[1].session_data = call.args.row.session_data
    /\ sessions[1].step_retries = call.args.row.step_retries + 1
    /\ sessions[1].status = "Active"

-----------------------------------------------------------------------------
(* The retry counter across steps *)

\* the attempts the step a session is at allows: max_retries, 3 when unset
AllowedAttempts(doc) ==
    LET step == FindStep(flows[doc.current_flow].steps, doc.current_step)
    IN IF step.max_retries = 0 THEN DefaultMaxRetries ELSE step.max_retries

\* C36: the retry counter of an Active session is below the max_retries of
\* the step it is at (3 when unset), and it is 0 when a call has moved the
\* session to another step, whatever was counted on the step before.
C36_RetriesBelowLimit ==
    /\ \A i \in 1..Len(sessions) :
          (/\ sessions[i].status = "Active"
           /\ sessions[i].current_step \in StepNames(flows[sessions[i].current_flow].steps))
             => sessions[i].step_retries < AllowedAttempts(sessions[i])
    /\ \A w \in Workers :
          (/\ Processed(w)
           /\ sessions[wk[w].doc.name].status = "Active"
           /\ sessions[wk[w].doc.name].current_step # wk[w].doc.current_step)
             => sessions[wk[w].doc.name].step_retries = 0

\* two invalid addresses, then a valid one: the Pin step starts from 0
C36_PinStartsFromZero ==
    /\ Processed(1)
    /\ wk[1].doc.current_step = "Email"
    /\ wk[1].doc.step_retries = 2
    /\ sessions[wk[1].doc.name].current_step = "Pin"
    /\ sessions[wk[1].doc.name].status = "Active"
    /\ sessions[wk[1].doc.name].step_retries = 0

-----------------------------------------------------------------------------
(* Sessions that have ended *)

TerminalStatuses == {"Completed", "Cancelled", "Timeout"}

\* C37: once a stored session is Completed, Cancelled or Timeout, no step of
\* any request or expiry pass changes its status, its current step or its
\* variables, or runs a completion action for it.
C37_TerminalAbsorbing ==
    [][\A i \in 1..Len(sessions) :
          sessions[i].status \in TerminalStatuses =>
              /\ sessions'[i].status = sessions[i].status
              /\ sessions'[i].current_step = sessions[i].current_step
              /\ sessions'[i].session_data = sessions[i].session_data
              /\ ActionRuns(i)' = ActionRuns(i) ]_vars

-----------------------------------------------------------------------------
(* Where a call leaves an Active session *)

\* the step session doc is at exists in its flow and asks for an input
AtPrompt(doc) ==
    /\ FlowExists(doc.current_flow)
    /\ doc.current_step \in StepNames(flows[doc.current_flow].steps)
    /\ FindStep(flows[doc.current_flow].steps, doc.current_step).input_type
          \notin SilentTypes

\* C38: when start_flow or process_input has returned and the stored session
\* is Active, its current_step is a step of its current_flow and that step is
\* not a Send Message, Condition, Router or Jump step.
C38_ActiveSessionAtPrompt ==
    \A w \in Workers :
        ((Processed(w) \/ Started(w)) /\ sessions[wk[w].doc.name].status = "Active")
            => AtPrompt(sessions[wk[w].doc.name])

-----------------------------------------------------------------------------
(* What a call that completes the flow returns *)

\* C39: a process_input call that has set the session Completed returns the
\* completion message of the flow, and not the generic error message or null.
C39_CompletionReturnsMessage ==
    (Done("process_input") /\ sessions[1].status = "Completed") =>
        /\ call.ret.ret # TextVal(ErrorMessage)
        /\ call.ret.ret # NoneVal
        /\ call.ret.ret =
              TextVal(Substitute(flows[sessions[1].current_flow].completion_message,
                                 parse_json(sessions[1].session_data, <<>>)))

-----------------------------------------------------------------------------
(* The activity stamp *)

\* the flows and steps a session may be waiting at
StampFlows == [n \in {"Survey", "Signup"} |-> IF n = "Survey" THEN Survey ELSE Signup]

StampSteps ==
    { <<"Survey", "Ask Name">>, <<"Survey", "Ask Age">>, <<"Signup", "Email">>,
      <<"Signup", "Pin">>, <<"Signup", "Code">> }

\* the text of an inbound message: none, empty, a word, a number, a keyword
StampTexts == {None, <<>>, <<"a","b","c">>, <<"3","0">>, <<"s","t","o","p">>}

\* the time of the call and the time of the session's last activity
StampTimes == {<<1, 0>>, <<1, 1>>, <<2, 1>>}

InitStamp ==
    \E at \in StampSteps, user_input \in StampTexts,
       button_payload \in ValidatedPayloads, t \in StampTimes :
        /\ now = t[1]
        /\ flows = StampFlows
        /\ settings = MainSettings
        /\ sessions = <<[NoDoc EXCEPT !.name = 1, !.phone_number = "p1",
                                      !.whatsapp_account = Account, !.status = "Active",
                                      !.current_flow = at[1], !.current_step = at[2],
                                      !.session_data = Json(<<>>),
                                      !.last_activity = t[2]]>>
        /\ outbox = <<>>
        /\ fired = <<>>
        /\ wk = [w \in Workers |-> IdleWorker]
        /\ sweep = IdleSweep
        /\ call = NewCall("process_input",
                          [user_input |-> user_input, button_payload |-> button_payload])

NextStamp == ProcessInputCall

SpecStamp == InitStamp /\ [][NextStamp]_vars

\* C40: a process_input call that leaves the stored session Active has
\* stamped its last_activity with the time of the call, so that no expiry
\* pass at that time lists the session.
C40_CallStampsActivity ==
    (Done("process_input") /\ sessions[1].status = "Active") =>
        /\ sessions[1].last_activity = now
        /\ ~IsExpired(sessions[1], get_timeout)
=============================================================================
